---- MODULE Spec2Model ----
(***************************************************************************)
(* LetsDraw: the server-held drawing history (DrawingState, one per room)  *)
(* with its undo/redo cursor, the socket handlers that drive it, and the   *)
(* client handlers that render what the server broadcasts.                 *)
(*                                                                         *)
(* JavaScript arrays are 0-based and TLA+ sequences 1-based: the entry the *)
(* code calls history[i] is history[i + 1] here (see At).                  *)
(***************************************************************************)
EXTENDS Integers, Sequences, FiniteSets, TLC

(***************************************************************************)
(* Program constants.                                                      *)
(***************************************************************************)
maxHistorySize == 500

\* ActionSequencer: an action older than this many ms is stale
staleAfter == 30000
\* ActionSequencer: a stroke younger than this many ms is recent
recentWindow == 1000
\* ActionSequencer.maxQueueSize
maxQueueSize == 1000
\* ReconnectionManager.maxAttempts, as socketService constructs it
maxAttempts == 10

(***************************************************************************)
(* Bounds of the exploration.                                              *)
(***************************************************************************)
\* actions appended beyond maxHistorySize in the DrawingState specification
MaxExtra == 2
\* undo/redo/clear calls explored in one run of the DrawingState specification
MaxDsOps == 3
\* undo/redo/clear are explored while at most this many actions were created ...
MaxShort == 2
\* ... and again once the history is within this distance of maxHistorySize
NearCap == 1
\* draw/undo/redo/clear inputs the users make in one run of the system
MaxReqs == 3
\* events in flight (emitted, not yet handled) beyond which no user makes an input
MaxInFlight == 2
\* operations remembered by the observer log
LogDepth == 4

\* actions handed to the ActionSequencer in one run of its specification
MaxDeliveries == 3
\* times the clock is advanced in one run of the ActionSequencer specification
MaxTicks == 1

\* requestUndo / requestRedo calls made in one run of the HistoryManager
\* specification
MaxHmCalls == 3

\* startReconnection invocations made in one run of the ReconnectionManager
\* specification
MaxInvocations == 2

\* on / cancelReconnection / reset calls made in one run of the
\* ReconnectionManager specification
MaxRcCalls == 2

\* startRecovery invocations made in one run of the StateRecoveryManager
\* specification
MaxRecoveries == 3

\* strokes passed to send() in one run of the debouncer specification
MaxSends == 4

\* flush() and cancel() calls made in one run of the debouncer specification
MaxDbCalls == 2

\* Date.now() when the sequencer is created: any time later than the ages
\* the actions handed to it may have
StartTime == staleAfter + recentWindow + 1

\* by how much the clock is advanced between two actions (ms)
Delays == {1, recentWindow - 1}

\* how old the timestamp of an action is when it is enqueued (ms); the App
\* stamps a remote action with the time of its arrival (age 0)
Ages == {0, recentWindow, staleAfter + 1}

\* the client sockets; a socket's id is the userId of what it draws
Sockets == {1, 2}

\* the room ids the clients may name
RoomIds == {1, 2}

\* the rooms a socket's user may ask for: room ids are interchangeable, so the
\* first socket's room is called 1 and the second joins it or another
RoomChoices(c) == IF c = 1 THEN {1} ELSE RoomIds

(***************************************************************************)
(* DrawingAction (id, userId, type, data); the stroke payload is opaque to *)
(* the history: data is a token that names the stroke.  null is what       *)
(* undo() and redo() return when there is nothing to undo or redo.         *)
(***************************************************************************)
DrawingAction(id, userId, type, data) ==
  [id |-> id, userId |-> userId, type |-> type, data |-> data]

null == [id |-> 0, userId |-> 0, type |-> "null", data |-> 0]

\* Array.prototype.slice(0, n)
slice0(arr, n) == SubSeq(arr, 1, n)

\* arr[i] with a JavaScript (0-based) index
At(arr, i) == arr[i + 1]

(***************************************************************************)
(* DrawingState: a record [history, currentIndex].  Each method is an      *)
(* operator from the state before the call to the state after it (and the  *)
(* value returned).                                                        *)
(***************************************************************************)
NewDrawingState == [history |-> << >>, currentIndex |-> -1]

\* addAction without the removal of the redo history
addAction_KeepsRedoTail(st, action) ==
  LET pushed == Append(st.history, action)
      idx == st.currentIndex + 1
  IN IF Len(pushed) > maxHistorySize
     THEN [history |-> Tail(pushed), currentIndex |-> idx - 1]
     ELSE [history |-> pushed, currentIndex |-> idx]

\* addAction whose slice keeps one entry of the redo history
addAction_SliceOffByOne(st, action) ==
  LET kept == IF st.currentIndex < Len(st.history) - 1
              THEN slice0(st.history, st.currentIndex + 2)
              ELSE st.history
      pushed == Append(kept, action)
      idx == st.currentIndex + 1
  IN IF Len(pushed) > maxHistorySize
     THEN [history |-> Tail(pushed), currentIndex |-> idx - 1]
     ELSE [history |-> pushed, currentIndex |-> idx]

\* addAction without the history size limit
addAction_NoLimit(st, action) ==
  LET kept == IF st.currentIndex < Len(st.history) - 1
              THEN slice0(st.history, st.currentIndex + 1)
              ELSE st.history
  IN [history |-> Append(kept, action), currentIndex |-> st.currentIndex + 1]

addAction(st, action) ==
  LET kept == IF st.currentIndex < Len(st.history) - 1
              THEN slice0(st.history, st.currentIndex + 1)
              ELSE st.history
      pushed == Append(kept, action)
      idx == st.currentIndex + 1
  IN IF Len(pushed) > maxHistorySize
     THEN [history |-> Tail(pushed), currentIndex |-> idx - 1]
     ELSE [history |-> pushed, currentIndex |-> idx]

\* undo without the test for the start of the history
undo_Unguarded(st) ==
  [state |-> [st EXCEPT !.currentIndex = st.currentIndex - 1],
   ret |-> IF st.currentIndex >= 0 THEN At(st.history, st.currentIndex) ELSE null]

\* undo that returns the entry below the one it makes invisible
undo_OffByOne(st) ==
  IF st.currentIndex >= 0
  THEN [state |-> [st EXCEPT !.currentIndex = st.currentIndex - 1],
        ret |-> IF st.currentIndex >= 1 THEN At(st.history, st.currentIndex - 1)
                ELSE At(st.history, st.currentIndex)]
  ELSE [state |-> st, ret |-> null]

\* undo that pops the undone entry off the array
undo_Pops(st) ==
  IF st.currentIndex >= 0
  THEN [state |-> [history |-> slice0(st.history, st.currentIndex),
                   currentIndex |-> st.currentIndex - 1],
        ret |-> At(st.history, st.currentIndex)]
  ELSE [state |-> st, ret |-> null]

undo(st) ==
  IF st.currentIndex >= 0
  THEN [state |-> [st EXCEPT !.currentIndex = st.currentIndex - 1],
        ret |-> At(st.history, st.currentIndex)]
  ELSE [state |-> st, ret |-> null]

\* redo that returns the entry at the cursor before it is advanced
redo_ReturnsOld(st) ==
  IF st.currentIndex < Len(st.history) - 1
  THEN [state |-> [st EXCEPT !.currentIndex = st.currentIndex + 1],
        ret |-> IF st.currentIndex >= 0 THEN At(st.history, st.currentIndex)
                ELSE null]
  ELSE [state |-> st, ret |-> null]

\* redo that jumps to the newest entry
redo_ToEnd(st) ==
  IF st.currentIndex < Len(st.history) - 1
  THEN [state |-> [st EXCEPT !.currentIndex = Len(st.history) - 1],
        ret |-> At(st.history, Len(st.history) - 1)]
  ELSE [state |-> st, ret |-> null]

redo(st) ==
  IF st.currentIndex < Len(st.history) - 1
  THEN [state |-> [st EXCEPT !.currentIndex = st.currentIndex + 1],
        ret |-> At(st.history, st.currentIndex + 1)]
  ELSE [state |-> st, ret |-> null]

\* getHistory that returns the whole array
getHistory_All(st) == st.history

getHistory(st) == slice0(st.history, st.currentIndex + 1)

canUndo(st) == st.currentIndex >= 0

canRedo(st) == st.currentIndex < Len(st.history) - 1

clear(st) == [history |-> << >>, currentIndex |-> -1]

(***************************************************************************)
(* State of a DrawingState instance driven through its methods.            *)
(*   ds         the DrawingState                                           *)
(*   nextId     source of fresh DrawingAction ids (the code builds them    *)
(*              from userId, Date.now() and Math.random())                 *)
(*   dsOps      number of undo/redo/clear/getHistory calls made so far     *)
(*   dsPrev     the DrawingState as it was before the last call            *)
(*   dsLog      the last LogDepth calls: method name and returned action   *)
(*   dsSnap     the array returned by the last getHistory()                *)
(*   dsDropped  ids of the entries that were beyond the cursor when an     *)
(*              addAction was made (the redo tail at that moment)          *)
(***************************************************************************)
VARIABLES ds, nextId, dsOps, dsPrev, dsLog, dsSnap, dsDropped

(***************************************************************************)
(* State of the running system: one server and the client apps.            *)
(* Server (Server/server.js, rooms.js, drawing-state.js):                  *)
(*   rooms        RoomManager.rooms: room id -> ids of the users in it     *)
(*   roomStates   StateManager.roomStates: room id -> DrawingState         *)
(*   userRooms    userRooms: socket id -> room id                          *)
(*   ioRooms      the socket.io rooms each socket has joined (socket.join) *)
(* Transport (socket.io, ordered per connection):                          *)
(*   toServer     events each client has emitted, not yet handled          *)
(*   toClient     events emitted to each client, not yet handled           *)
(* Client app c (client/src):                                              *)
(*   connected     the socket is open (socketService.isConnected)          *)
(*   isJoining     RoomManager.isJoining: a join was asked, not answered   *)
(*   clientRoom    socketService.roomId (0: none)                          *)
(*   canvas        the strokes painted on the canvas since it was wiped    *)
(*   pendingStroke the draw debouncer's lastStroke (0: none)               *)
(*   seqProcessed  ActionSequencer.processedActions                        *)
(*   seqRebuild    conflictLog holds an entry with requiresRebuild         *)
(*   hm            HistoryManager: its canUndo and canRedo                 *)
(* Observers:                                                              *)
(*   nextStroke   names the strokes the users draw                         *)
(*   reqs         draw/undo/redo/clear inputs made so far                  *)
(*   lastSrv      the last draw/undo/redo/clear event the server handled:  *)
(*                who asked, whether it was carried out, the action, and   *)
(*                the room's DrawingState before it; and the log of the    *)
(*                draw/undo/redo/clear events carried out so far           *)
(***************************************************************************)
VARIABLES rooms, roomStates, userRooms, ioRooms, toServer, toClient,
          connected, isJoining, clientRoom, canvas, pendingStroke, seqProcessed, seqRebuild,
          hm, nextStroke, reqs, lastSrv

(***************************************************************************)
(* State of one client's ActionSequencer driven through enqueueAction and  *)
(* processQueue (client/src/utils/conflictResolver.jsx).                   *)
(*   sq       the ActionSequencer                                          *)
(*   clock    Date.now()                                                   *)
(*   sqTicks  number of times the clock was advanced                       *)
(*   sqPrev   the ActionSequencer before the last enqueue-and-process      *)
(*   sqBatch  the array the last processQueue() returned                   *)
(*   sqIn     the last action handed to the sequencer, and how it relates  *)
(*            to what was handed before: the next one, one after a missed  *)
(*            one ("gap"), or the last one again ("dup"); at is the time   *)
(*            of the call                                                  *)
(*   sqSent   the actions handed to the sequencer so far, oldest first     *)
(***************************************************************************)
VARIABLES sq, clock, sqTicks, sqPrev, sqBatch, sqIn, sqSent

(***************************************************************************)
(* State of one HistoryManager driven through its methods                  *)
(* (client/src/utils/historyManager.jsx).                                  *)
(*   hmu         the HistoryManager                                        *)
(*   hmuTimers   the timers that are armed: the request each belongs to    *)
(*   hmuPending  the requests whose promise is not settled yet             *)
(*   hmuResults  the settled promises: request and value                   *)
(*   hmuEmitted  the calls of socketService.requestUndo / requestRedo      *)
(*   hmuLast     the last call: its name, what it returned, the request    *)
(*               it made or ended, and n, the requestUndo / requestRedo    *)
(*               calls made so far; for a response, its kind (undo or      *)
(*               redo) and the userId of its message                       *)
(***************************************************************************)
VARIABLES hmu, hmuTimers, hmuPending, hmuResults, hmuEmitted, hmuLast

(***************************************************************************)
(* State of one ReconnectionManager driven through its methods             *)
(* (ReconnectionManager of the client's error recovery utilities).         *)
(*   rc        the ReconnectionManager                                     *)
(*   rcInv     the invocations of startReconnection: where each is (not    *)
(*             made, waiting for its timer, waiting for reconnectFn,       *)
(*             returned), the reconnectFn calls it made, how the last of   *)
(*             them ended, what the invocation returned, and the callbacks *)
(*             it called                                                   *)
(*   rcTimers  the invocations whose setTimeout is armed                   *)
(*   rcCalls   the on / cancelReconnection / reset calls made so far       *)
(***************************************************************************)
VARIABLES rc, rcInv, rcTimers, rcCalls

(***************************************************************************)
(* State of one StateRecoveryManager driven through its methods.           *)
(*   sr     the StateRecoveryManager: isRecoveringState and the keys of    *)
(*          stateSnapshots                                                 *)
(*   srInv  the invocations of startRecovery: where each is (not made,     *)
(*          waiting for recoveryFn, returned), whether it called           *)
(*          recoveryFn, how recoveryFn ended and what the invocation       *)
(*          returned                                                       *)
(***************************************************************************)
VARIABLES sr, srInv

(***************************************************************************)
(* State of one drawing debouncer (createDrawingDebouncer of               *)
(* client/src/utils/drawingSync.jsx) driven through send, flush and cancel.*)
(*   db           the closure: lastStroke (0: null) and whether the timer  *)
(*                timeoutId refers to is armed                             *)
(*   dbSent       the number of strokes passed to send(), which are named  *)
(*                1, 2, ... in the order they were passed                  *)
(*   dbDelivered  the strokes the callback was called with, oldest first   *)
(*   dbCancelled  the strokes that were held when cancel() was called      *)
(*   dbCalls      the flush() and cancel() calls made so far               *)
(***************************************************************************)
VARIABLES db, dbSent, dbDelivered, dbCancelled, dbCalls

dsVars == <<ds, dsOps, dsPrev, dsLog, dsSnap, dsDropped>>

hmuVars == <<hmu, hmuTimers, hmuPending, hmuResults, hmuEmitted, hmuLast>>

rcVars == <<rc, rcInv, rcTimers, rcCalls>>

srVars == <<sr, srInv>>

dbVars == <<db, dbSent, dbDelivered, dbCancelled, dbCalls>>

unitVars == <<hmuVars, rcVars, srVars, dbVars>>

seqVars == <<sq, clock, sqTicks, sqPrev, sqBatch, sqIn, sqSent>>

serverVars == <<rooms, roomStates, userRooms, ioRooms>>

clientVars == <<connected, isJoining, clientRoom, canvas, pendingStroke, seqProcessed, seqRebuild, hm>>

sysVars == <<serverVars, toServer, toClient, clientVars, nextStroke, reqs, lastSrv>>

vars == <<dsVars, nextId, sysVars, seqVars, unitVars>>

\* data.key !== undefined
Has(data, key) == key \in DOMAIN data

\* HistoryState
IDLE == "idle"

WAITING_UNDO == "waiting-undo"

WAITING_REDO == "waiting-redo"

\* HistoryManager constructor.  undoResolve / redoResolve name the request
\* whose promise _undoResolve / _redoResolve settles, undoTimeout /
\* redoTimeout the request whose timer the handle refers to (0: not set)
NewHistoryManager ==
  [canUndo |-> FALSE, canRedo |-> FALSE, historyState |-> IDLE,
   undoResolve |-> 0, redoResolve |-> 0, undoTimeout |-> 0, redoTimeout |-> 0]

\* HistoryManager.updateHistoryState: a flag is taken from the message when
\* the message defines it
updateHistoryState(h, data) ==
  [h EXCEPT !.canUndo = IF Has(data, "canUndo") THEN data.canUndo ELSE h.canUndo,
            !.canRedo = IF Has(data, "canRedo") THEN data.canRedo ELSE h.canRedo]

NoSrv == [op |-> "none", ok |-> FALSE, by |-> 0, roomId |-> 0,
          action |-> null, pre |-> NewDrawingState, log |-> << >>]

SysInit ==
  /\ rooms = << >>
  /\ roomStates = << >>
  /\ userRooms = << >>
  /\ ioRooms = [c \in Sockets |-> {}]
  /\ toServer = [c \in Sockets |-> << >>]
  /\ toClient = [c \in Sockets |-> << >>]
  /\ connected = [c \in Sockets |-> TRUE]
  /\ isJoining = [c \in Sockets |-> FALSE]
  /\ clientRoom = [c \in Sockets |-> 0]
  /\ canvas = [c \in Sockets |-> << >>]
  /\ pendingStroke = [c \in Sockets |-> 0]
  /\ seqProcessed = [c \in Sockets |-> << >>]
  /\ seqRebuild = [c \in Sockets |-> FALSE]
  /\ hm = [c \in Sockets |-> NewHistoryManager]
  /\ nextStroke = 1
  /\ reqs = 0
  /\ lastSrv = NoSrv

\* ActionSequencer constructor
NewActionSequencer ==
  [actionQueue |-> << >>, processedActions |-> << >>, conflictLog |-> << >>,
   lastProcessedTimestamp |-> 0]

\* no action handed to the sequencer yet
NoInput == [id |-> 0, kind |-> "none", type |-> "none", timestamp |-> 0, at |-> 0]

\* no call made on the HistoryManager yet
NoCall == [n |-> 0, call |-> "none", ret |-> "none", id |-> 0, kind |-> "none", from |-> 0]

HMIdle ==
  /\ hmu = NewHistoryManager
  /\ hmuTimers = {}
  /\ hmuPending = {}
  /\ hmuResults = {}
  /\ hmuEmitted = << >>
  /\ hmuLast = NoCall

\* the events of ReconnectionManager.callbacks
RcEvents == {"onReconnectAttempt", "onReconnectSuccess", "onReconnectFailed",
             "onMaxAttemptsReached"}

\* ReconnectionManager constructor.  reconnectTimer names the invocation
\* whose latest setTimeout the handle refers to (0: null); callbacks is the
\* set of events whose callback is not null.  The delay fields only set how
\* long a timer runs and are left out.
NewReconnectionManager ==
  [isAttemptingReconnect |-> FALSE, reconnectAttempts |-> 0,
   reconnectTimer |-> 0, callbacks |-> {}]

RcInvocations == 1..MaxInvocations

\* an invocation of startReconnection that was not made yet
NoInvocation ==
  [pc |-> "none", made |-> 0, outcome |-> "none", ret |-> "none", called |-> {}]

RCIdle ==
  /\ rc = NewReconnectionManager
  /\ rcInv = [i \in RcInvocations |-> NoInvocation]
  /\ rcTimers = {}
  /\ rcCalls = 0

\* StateRecoveryManager constructor; the callbacks stay null, as on() never
\* stores one, and lastSyncTimestamp is written and never read
NewStateRecoveryManager == [isRecoveringState |-> FALSE, stateSnapshots |-> {}]

SrInvocations == 1..MaxRecoveries

\* an invocation of startRecovery that was not made yet
NoRecovery == [pc |-> "none", ran |-> FALSE, outcome |-> "none", ret |-> "none"]

SRIdle ==
  /\ sr = NewStateRecoveryManager
  /\ srInv = [i \in SrInvocations |-> NoRecovery]

\* createDrawingDebouncer: timeoutId = null, lastStroke = null
NewDebouncer == [lastStroke |-> 0, armed |-> FALSE]

DBIdle ==
  /\ db = NewDebouncer
  /\ dbSent = 0
  /\ dbDelivered = << >>
  /\ dbCancelled = {}
  /\ dbCalls = 0

UnitIdle == HMIdle /\ RCIdle /\ SRIdle /\ DBIdle

SeqIdle ==
  /\ sq = NewActionSequencer
  /\ clock = StartTime
  /\ sqTicks = 0
  /\ sqPrev = NewActionSequencer
  /\ sqBatch = << >>
  /\ sqIn = NoInput
  /\ sqSent = << >>

DSIdle ==
  /\ ds = NewDrawingState
  /\ dsOps = 0
  /\ dsPrev = NewDrawingState
  /\ dsLog = << >>
  /\ dsSnap = << >>
  /\ dsDropped = {}

Range(f) == {f[i] : i \in DOMAIN f}

Ids(arr) == {arr[i].id : i \in DOMAIN arr}

Logged(log, op, ret) ==
  LET l == Append(log, [op |-> op, ret |-> ret])
  IN IF Len(l) > LogDepth THEN Tail(l) ELSE l

\* the entries beyond the cursor: what redo could still bring back
RedoTail(st) == SubSeq(st.history, st.currentIndex + 2, Len(st.history))

DSInit ==
  /\ DSIdle
  /\ nextId = 1
  /\ SysInit
  /\ SeqIdle
  /\ UnitIdle

\* undo/redo/clear/getHistory are explored early in a run and again near the
\* size limit; in between the run only appends
OpAllowed ==
  /\ dsOps < MaxDsOps
  /\ \/ nextId <= MaxShort + 1
     \/ Len(ds.history) >= maxHistorySize - NearCap

DSAddAction ==
  /\ nextId <= maxHistorySize + MaxExtra
  /\ LET action == DrawingAction(nextId, ((nextId - 1) % Cardinality(Sockets)) + 1,
                                   "stroke", nextId)
     IN /\ ds' = addAction(ds, action)
        /\ dsLog' = Logged(dsLog, "addAction", action)
  /\ nextId' = nextId + 1
  /\ dsPrev' = ds
  /\ dsDropped' = dsDropped \cup Ids(RedoTail(ds))
  /\ UNCHANGED <<dsOps, dsSnap, sysVars, seqVars, unitVars>>

DSUndo ==
  /\ OpAllowed
  /\ ds' = undo(ds).state
  /\ dsLog' = Logged(dsLog, "undo", undo(ds).ret)
  /\ dsOps' = dsOps + 1
  /\ dsPrev' = ds
  /\ UNCHANGED <<nextId, dsSnap, dsDropped, sysVars, seqVars, unitVars>>

DSRedo ==
  /\ OpAllowed
  /\ ds' = redo(ds).state
  /\ dsLog' = Logged(dsLog, "redo", redo(ds).ret)
  /\ dsOps' = dsOps + 1
  /\ dsPrev' = ds
  /\ UNCHANGED <<nextId, dsSnap, dsDropped, sysVars, seqVars, unitVars>>

DSClear ==
  /\ OpAllowed
  /\ ds' = clear(ds)
  /\ dsLog' = Logged(dsLog, "clear", null)
  /\ dsOps' = dsOps + 1
  /\ dsPrev' = ds
  /\ UNCHANGED <<nextId, dsSnap, dsDropped, sysVars, seqVars, unitVars>>

\* a clear request that empties the room's history (StateManager.clearRoom)
\* where the handler adds an action
DSAddClear_Wipes ==
  /\ OpAllowed
  /\ LET action == DrawingAction(nextId, ((nextId - 1) % Cardinality(Sockets)) + 1,
                                   "clear", 0)
     IN /\ ds' = clear(ds)
        /\ dsLog' = Logged(dsLog, "addAction", action)
  /\ nextId' = nextId + 1
  /\ dsOps' = dsOps + 1
  /\ dsPrev' = ds
  /\ dsDropped' = dsDropped \cup Ids(RedoTail(ds))
  /\ UNCHANGED <<dsSnap, sysVars, seqVars, unitVars>>

\* what socket.on('clear') does to the room's DrawingState:
\* stateManager.addAction(roomId, socket.id, 'clear', {userId})
DSAddClear ==
  /\ OpAllowed
  /\ LET action == DrawingAction(nextId, ((nextId - 1) % Cardinality(Sockets)) + 1,
                                   "clear", 0)
     IN /\ ds' = addAction(ds, action)
        /\ dsLog' = Logged(dsLog, "addAction", action)
  /\ nextId' = nextId + 1
  /\ dsOps' = dsOps + 1
  /\ dsPrev' = ds
  /\ dsDropped' = dsDropped \cup Ids(RedoTail(ds))
  /\ UNCHANGED <<dsSnap, sysVars, seqVars, unitVars>>

\* getHistory() builds a new array with slice and assigns nothing
DSGetHistory ==
  /\ OpAllowed
  /\ dsSnap' = getHistory(ds)
  /\ dsLog' = Logged(dsLog, "getHistory", null)
  /\ dsOps' = dsOps + 1
  /\ dsPrev' = ds
  /\ UNCHANGED <<ds, nextId, dsDropped, sysVars, seqVars, unitVars>>

DSNext == DSAddAction \/ DSUndo \/ DSRedo \/ DSClear \/ DSAddClear \/ DSGetHistory

SpecDS == DSInit /\ [][DSNext]_vars

LastCall == dsLog[Len(dsLog)]

LastIs(op) == Len(dsLog) > 0 /\ LastCall.op = op

(***************************************************************************)
(* C2: in every reachable state of a DrawingState, after any sequence of   *)
(* addAction, undo, redo and clear, -1 <= currentIndex <= history.length-1.*)
(***************************************************************************)
C2_CursorInRange ==
  /\ -1 <= ds.currentIndex
  /\ ds.currentIndex <= Len(ds.history) - 1

\* undo has walked the cursor down to -1 while entries remain in storage
C2_Witness ==
  /\ LastIs("undo")
  /\ LastCall.ret # null
  /\ ds.currentIndex = -1
  /\ Len(ds.history) > 0

(***************************************************************************)
(* C3: getHistory returns exactly the prefix history[0..currentIndex], in  *)
(* order: its length is currentIndex + 1, it holds no entry from beyond    *)
(* the cursor, and the call changes neither history nor currentIndex.      *)
(***************************************************************************)
C3_SnapshotIsActivePrefix ==
  LastIs("getHistory") =>
    /\ Len(dsSnap) = dsPrev.currentIndex + 1
    /\ \A i \in 0..dsPrev.currentIndex : At(dsSnap, i) = At(dsPrev.history, i)
    /\ Ids(dsSnap) \cap Ids(RedoTail(dsPrev)) = {}
    /\ ds = dsPrev

\* a snapshot taken while some entry is undone and some entry is active
C3_Witness ==
  /\ LastIs("getHistory")
  /\ canRedo(ds)
  /\ canUndo(ds)
  /\ Len(dsSnap) = ds.currentIndex + 1

(***************************************************************************)
(* C4: addAction called with entries beyond the cursor discards all of     *)
(* them before appending; after any addAction the new action is the last   *)
(* entry, currentIndex = history.length - 1 and canRedo() is false.        *)
(***************************************************************************)
C4_AppendDiscardsRedoTail ==
  LastIs("addAction") =>
    /\ Ids(RedoTail(dsPrev)) \cap Ids(ds.history) = {}
    /\ ds.history[Len(ds.history)] = LastCall.ret
    /\ ds.currentIndex = Len(ds.history) - 1
    /\ ~canRedo(ds)

\* an append made while redo was available
C4_Witness ==
  /\ LastIs("addAction")
  /\ canRedo(dsPrev)
  /\ ds.history[Len(ds.history)] = LastCall.ret

(***************************************************************************)
(* C5: undo with currentIndex >= 0 returns history[currentIndex] as it was *)
(* before the call and decrements currentIndex by exactly one; with        *)
(* currentIndex = -1 it returns null and changes nothing.                  *)
(***************************************************************************)
C5_Undo ==
  LastIs("undo") =>
    IF dsPrev.currentIndex >= 0
    THEN /\ LastCall.ret = At(dsPrev.history, dsPrev.currentIndex)
         /\ ds.currentIndex = dsPrev.currentIndex - 1
    ELSE /\ LastCall.ret = null
         /\ ds = dsPrev

\* an undo that returned an action, followed by an undo that found nothing
C5_Witness ==
  /\ Len(dsLog) >= 2
  /\ LastIs("undo")
  /\ LastCall.ret = null
  /\ dsLog[Len(dsLog) - 1].op = "undo"
  /\ dsLog[Len(dsLog) - 1].ret # null

(***************************************************************************)
(* C6: redo with currentIndex < history.length - 1 increments currentIndex *)
(* by exactly one and returns the entry at the new currentIndex; with      *)
(* currentIndex = history.length - 1 it returns null and changes nothing.  *)
(***************************************************************************)
C6_Redo ==
  LastIs("redo") =>
    IF dsPrev.currentIndex < Len(dsPrev.history) - 1
    THEN /\ ds.currentIndex = dsPrev.currentIndex + 1
         /\ LastCall.ret = At(ds.history, ds.currentIndex)
    ELSE /\ LastCall.ret = null
         /\ ds = dsPrev

\* a redo that returned an action, followed by a redo that found nothing
C6_Witness ==
  /\ Len(dsLog) >= 2
  /\ LastIs("redo")
  /\ LastCall.ret = null
  /\ dsLog[Len(dsLog) - 1].op = "redo"
  /\ dsLog[Len(dsLog) - 1].ret # null

(***************************************************************************)
(* C8: from any state in which undo is possible, undo() followed at once   *)
(* by redo() restores the same history and currentIndex, and redo returns  *)
(* the action undo returned.  In the state between the two calls dsPrev is *)
(* the state before the undo and the last log entry is the undo.           *)
(***************************************************************************)
RedoRightAfterUndo ==
  /\ LastIs("undo")
  /\ LastCall.ret # null
  /\ dsOps' = dsOps + 1
  /\ dsLog'[Len(dsLog')].op = "redo"

C8_RedoReinstates ==
  [][RedoRightAfterUndo =>
       /\ ds' = dsPrev
       /\ dsLog'[Len(dsLog')].ret = LastCall.ret]_vars

\* a redo made right after a successful undo
C8_Witness ==
  /\ Len(dsLog) >= 2
  /\ LastIs("redo")
  /\ dsLog[Len(dsLog) - 1].op = "undo"
  /\ dsLog[Len(dsLog) - 1].ret # null
  /\ LastCall.ret = dsLog[Len(dsLog) - 1].ret

(***************************************************************************)
(* C9: after append(A); undo(); append(B) a redo finds nothing to redo,    *)
(* the active slice ends with B, and A can no longer be reached: A is not  *)
(* in history, and no undo or redo ever returns an entry that an append    *)
(* discarded.                                                              *)
(***************************************************************************)
AppendUndoAppend(k) ==
  /\ Len(dsLog) >= k + 2
  /\ dsLog[k].op = "addAction"
  /\ dsLog[k + 1].op = "undo"
  /\ dsLog[k + 1].ret = dsLog[k].ret
  /\ dsLog[k + 2].op = "addAction"

C9_AppendInvalidatesRedo ==
  /\ \A k \in 1..Len(dsLog) :
       (AppendUndoAppend(k) /\ Len(dsLog) = k + 2) =>
          /\ ~canRedo(ds)
          /\ redo(ds).ret = null
          /\ getHistory(ds)[Len(getHistory(ds))] = dsLog[k + 2].ret
          /\ dsLog[k].ret.id \notin Ids(ds.history)
  /\ \A k \in 1..Len(dsLog) :
       (AppendUndoAppend(k) /\ Len(dsLog) = k + 3 /\ dsLog[k + 3].op = "redo") =>
          /\ dsLog[k + 3].ret = null
          /\ ds = dsPrev
          /\ dsLog[k].ret.id \notin Ids(ds.history)
  /\ dsDropped \cap Ids(ds.history) = {}
  /\ (LastIs("undo") \/ LastIs("redo")) => LastCall.ret.id \notin dsDropped

\* append(A); undo(); append(B); redo(): the redo has been made
C9_Witness ==
  /\ Len(dsLog) >= 4
  /\ AppendUndoAppend(Len(dsLog) - 3)
  /\ LastIs("redo")
  /\ dsDropped # {}

(***************************************************************************)
(* C10: history.length never exceeds maxHistorySize; appending             *)
(* maxHistorySize + k actions to an empty history leaves exactly           *)
(* maxHistorySize entries, the newest ones in append order, with           *)
(* currentIndex = maxHistorySize - 1.                                      *)
(***************************************************************************)
Min(a, b) == IF a < b THEN a ELSE b

C10_BoundedHistory ==
  /\ Len(ds.history) <= maxHistorySize
  /\ dsOps = 0 =>
       LET n == nextId - 1
           kept == Min(n, maxHistorySize)
       IN /\ Len(ds.history) = kept
          /\ \A i \in 1..kept : ds.history[i].id = n - kept + i
          /\ ds.currentIndex = kept - 1

\* maxHistorySize + MaxExtra actions were appended to an empty history
C10_Witness ==
  /\ dsOps = 0
  /\ nextId - 1 = maxHistorySize + MaxExtra
  /\ Len(ds.history) = maxHistorySize
  /\ ds.history[1].id = MaxExtra + 1

(***************************************************************************)
(* C11: a clear request is an append of a 'clear' action.  As stated: the  *)
(* append adds the clear action after the active slice and removes none of *)
(* the entries before it, the clear can be undone, and clear followed by   *)
(* undo leaves the active slice that existed right before the clear.       *)
(***************************************************************************)
ClearAppended ==
  /\ nextId' = nextId + 1
  /\ dsLog'[Len(dsLog')].op = "addAction"
  /\ dsLog'[Len(dsLog')].ret.type = "clear"

UndoRightAfterClear ==
  /\ LastIs("addAction")
  /\ LastCall.ret.type = "clear"
  /\ dsOps' = dsOps + 1
  /\ dsLog'[Len(dsLog')].op = "undo"

C11_ClearAlwaysRestorable ==
  [][/\ ClearAppended =>
          /\ getHistory(ds') = Append(getHistory(ds), dsLog'[Len(dsLog')].ret)
          /\ canUndo(ds')
     /\ UndoRightAfterClear =>
          /\ dsLog'[Len(dsLog')].ret = LastCall.ret
          /\ getHistory(ds') = getHistory(dsPrev)]_vars

(***************************************************************************)
(* C11 as amended: the above holds when the active slice before the clear  *)
(* holds fewer than maxHistorySize entries.  When it holds maxHistorySize   *)
(* entries the append evicts the oldest one: the clear is still the last   *)
(* active entry and undoable, and clear followed by undo leaves the prior  *)
(* active slice without its oldest entry.                                  *)
(***************************************************************************)
C11_ClearIsAppend ==
  [][/\ ClearAppended =>
          /\ canUndo(ds')
          /\ At(ds'.history, ds'.currentIndex) = dsLog'[Len(dsLog')].ret
          /\ getHistory(ds') =
               IF ds.currentIndex + 1 < maxHistorySize
               THEN Append(getHistory(ds), dsLog'[Len(dsLog')].ret)
               ELSE Append(Tail(getHistory(ds)), dsLog'[Len(dsLog')].ret)
     /\ UndoRightAfterClear =>
          /\ dsLog'[Len(dsLog')].ret = LastCall.ret
          /\ getHistory(ds') =
               IF dsPrev.currentIndex + 1 < maxHistorySize
               THEN getHistory(dsPrev)
               ELSE Tail(getHistory(dsPrev))]_vars

\* a clear appended after some strokes and then undone: the strokes are
\* the active slice again
C11_Witness ==
  /\ Len(dsLog) >= 2
  /\ LastIs("undo")
  /\ LastCall.ret.type = "clear"
  /\ dsLog[Len(dsLog) - 1].op = "addAction"
  /\ dsLog[Len(dsLog) - 1].ret = LastCall.ret
  /\ Len(getHistory(ds)) >= 2
  /\ \A i \in DOMAIN getHistory(ds) : getHistory(ds)[i].type = "stroke"

(***************************************************************************)
(* C12: undo and redo change only currentIndex: history holds the same     *)
(* elements in the same order after the call as before it.                 *)
(***************************************************************************)
C12_UndoRedoKeepStorage ==
  (LastIs("undo") \/ LastIs("redo")) => ds.history = dsPrev.history

\* an undo that made an entry invisible while an entry below it stays active
C12_Witness ==
  /\ LastIs("undo")
  /\ LastCall.ret # null
  /\ canUndo(ds)
  /\ ds.history = dsPrev.history
  /\ At(ds.history, ds.currentIndex + 1) = LastCall.ret

(***************************************************************************)
(* The running system.                                                     *)
(***************************************************************************)

\* The events emitted to a client, each with the keys of the object the
\* server emits (type is the event name).
\* 'room-joined' {roomId, userId, user, users, history}; the user records
\* are left out
RoomJoinedMsg(roomId, userId, history) ==
  [type |-> "room-joined", roomId |-> roomId, userId |-> userId, history |-> history]

\* 'draw', 'undo', 'redo', 'clear' {userId, action}
ResultMsg(type, userId, action) ==
  [type |-> type, userId |-> userId, action |-> action]

\* 'error' {message}
ErrorMsg(message) == [type |-> "error", message |-> message]

\* the events that report a change of a room's history
ResultTypes == {"draw", "undo", "redo", "clear"}


\* an event emitted to the server
Req(type, roomId, data) == [type |-> type, roomId |-> roomId, data |-> data]

\* socket.emit(...): to this socket only
Emit(c, msg) == [toClient EXCEPT ![c] = Append(toClient[c], msg)]

\* an emit that puts the event ahead of those already on their way
Broadcast_Overtakes(r, msg) ==
  [d \in Sockets |-> IF r \in ioRooms[d] THEN <<msg>> \o toClient[d]
                     ELSE toClient[d]]

\* io.emit(...): to every socket, whatever its rooms
Broadcast_ToAll(r, msg) == [d \in Sockets |-> Append(toClient[d], msg)]

\* io.to(roomId).emit(...): to every socket that joined the socket.io room
Broadcast(r, msg) ==
  [d \in Sockets |-> IF r \in ioRooms[d] THEN Append(toClient[d], msg)
                     ELSE toClient[d]]

\* a membership test that only asks whether the room exists
IsMember_AnyRoom(c, r) == r \in DOMAIN rooms

\* roomManager.getRoom(roomId) exists and room.hasUser(socket.id)
IsMember(c, r) == r \in DOMAIN rooms /\ c \in rooms[r]

\* a function with one more (or one replaced) entry: Map.set(k, v)
MapSet(m, k, v) == [x \in (DOMAIN m) \cup {k} |-> IF x = k THEN v ELSE m[x]]

\* a function without the entry of k: Map.delete(k)
MapDelete(m, k) == [x \in (DOMAIN m) \ {k} |-> m[x]]

\* a strokeData object without the stroke fields (tool, x, y, color, size),
\* such as {}; the strokes the canvas emits are named 1, 2, ...
MalformedStroke == 0

\* CanvasDrawing.renderFromHistory: the canvas is wiped, then strokes are
\* painted and clear actions wipe, in the order of the array;
\* applyRemoteStroke paints nothing for a stroke without a tool
RECURSIVE Paint(_, _)
Paint(painted, actions) ==
  IF actions = << >> THEN painted
  ELSE LET a == Head(actions)
       IN Paint(IF a.type = "stroke" /\ a.data # MalformedStroke
                THEN Append(painted, a.data)
                ELSE IF a.type = "clear" THEN << >>
                ELSE painted,
                Tail(actions))

renderFromHistory(actions) == Paint(<< >>, actions)

\* what the observer keeps of an event the server has handled; log lists
\* the draw/undo/redo/clear events carried out so far, in the order the
\* server handled them
Handled(op, ok, c, r, action, pre) ==
  [op |-> op, ok |-> ok, by |-> c, roomId |-> r, action |-> action, pre |-> pre,
   log |-> IF ok /\ op \in ResultTypes
           THEN Append(lastSrv.log, [op |-> op, by |-> c, roomId |-> r, action |-> action])
           ELSE lastSrv.log]

PreState(r) == IF r \in DOMAIN roomStates THEN roomStates[r] ELSE NewDrawingState

NextReq(c, type) == toServer[c] # << >> /\ Head(toServer[c]).type = type

(***************************************************************************)
(* Client inputs.                                                          *)
(***************************************************************************)
RECURSIVE SumLen(_, _)
SumLen(q, S) ==
  IF S = {} THEN 0
  ELSE LET c == CHOOSE x \in S : TRUE
       IN Len(q[c]) + SumLen(q, S \ {c})

InFlight ==
  SumLen(toServer, Sockets) + SumLen(toClient, Sockets)
    + Cardinality({c \in Sockets : pendingStroke[c] # 0})

\* the users act while few events are in flight
MayInput == InFlight < MaxInFlight

\* a user acts on an open socket, and no more once it has closed it
MayAct(c) == MayInput /\ connected[c]

\* RoomManager.joinRoom -> socketService.joinRoom: refused while a join is
\* in progress or the socket is closed; otherwise 'join-room' is emitted.
\* A user's first join is not counted as one of the inputs of the run.
ClientJoin(c, r) ==
  /\ MayAct(c)
  /\ ~isJoining[c]
  /\ clientRoom[c] # 0 => reqs < MaxReqs
  /\ isJoining' = [isJoining EXCEPT ![c] = TRUE]
  /\ toServer' = [toServer EXCEPT ![c] = Append(toServer[c], Req("join-room", r, 0))]
  /\ reqs' = IF clientRoom[c] # 0 THEN reqs + 1 ELSE reqs
  /\ UNCHANGED <<serverVars, toClient, connected, clientRoom, canvas, pendingStroke,
                 seqProcessed, seqRebuild, hm, nextStroke, lastSrv, nextId, dsVars, seqVars, unitVars>>

\* the App's initializeApp: the one join a user makes after connecting
ClientFirstJoin(c, r) == clientRoom[c] = 0 /\ ClientJoin(c, r)

\* RoomManager.leaveRoom / socketService.disconnect: the socket is closed;
\* the server learns of it after the events emitted before, and the client
\* handles nothing that was on its way
ClientDisconnect(c) ==
  /\ MayAct(c)
  /\ reqs < MaxReqs
  /\ connected' = [connected EXCEPT ![c] = FALSE]
  /\ toServer' = [toServer EXCEPT ![c] = Append(toServer[c], Req("disconnect", 0, 0))]
  /\ toClient' = [toClient EXCEPT ![c] = << >>]
  /\ reqs' = reqs + 1
  /\ UNCHANGED <<serverVars, isJoining, clientRoom, canvas, pendingStroke,
                 seqProcessed, seqRebuild, hm, nextStroke, lastSrv, nextId, dsVars, seqVars, unitVars>>

\* canvas.handleMouseMove: the stroke is painted locally at once and handed
\* to the draw debouncer, whose send() replaces the stroke it was holding
ClientDraw(c) ==
  /\ MayAct(c)
  /\ reqs < MaxReqs
  /\ canvas' = [canvas EXCEPT ![c] = Append(canvas[c], nextStroke)]
  /\ pendingStroke' = [pendingStroke EXCEPT ![c] = nextStroke]
  /\ nextStroke' = nextStroke + 1
  /\ reqs' = reqs + 1
  /\ UNCHANGED <<serverVars, toServer, toClient, connected, isJoining, clientRoom,
                 seqProcessed, seqRebuild, hm, lastSrv, nextId, dsVars, seqVars, unitVars>>

\* the debouncer's timer fires: socketService.sendDraw emits 'draw' for the
\* held stroke when connected with a room set, and drops it with a warning otherwise
DebounceFire(c) ==
  /\ pendingStroke[c] # 0
  /\ toServer' = IF connected[c] /\ clientRoom[c] # 0
                 THEN [toServer EXCEPT ![c] =
                         Append(toServer[c], Req("draw", clientRoom[c], pendingStroke[c]))]
                 ELSE toServer
  /\ pendingStroke' = [pendingStroke EXCEPT ![c] = 0]
  /\ UNCHANGED <<serverVars, toClient, connected, isJoining, clientRoom, canvas,
                 seqProcessed, seqRebuild, hm, nextStroke, reqs, lastSrv, nextId, dsVars, seqVars, unitVars>>

\* socketService.sendDraw called with an object that lacks the stroke
\* fields: it is queued and emitted like any other once a room is set
ClientSendMalformed(c) ==
  /\ MayAct(c)
  /\ reqs < MaxReqs
  /\ clientRoom[c] # 0
  /\ toServer' = [toServer EXCEPT ![c] =
                    Append(toServer[c], Req("draw", clientRoom[c], MalformedStroke))]
  /\ reqs' = reqs + 1
  /\ UNCHANGED <<serverVars, toClient, clientVars, nextStroke, lastSrv, nextId, dsVars, seqVars, unitVars>>

\* socketService.requestUndo / requestRedo: emit when connected with a room set
ClientRequest(c, type) ==
  /\ MayAct(c)
  /\ reqs < MaxReqs
  /\ clientRoom[c] # 0
  /\ toServer' = [toServer EXCEPT ![c] = Append(toServer[c], Req(type, clientRoom[c], 0))]
  /\ reqs' = reqs + 1
  /\ UNCHANGED <<serverVars, toClient, clientVars, nextStroke, lastSrv, nextId, dsVars, seqVars, unitVars>>

ClientUndo(c) == ClientRequest(c, "undo")

ClientRedo(c) == ClientRequest(c, "redo")

\* App.handleClear: the canvas is wiped locally, then socketService.requestClear
ClientClear(c) ==
  /\ MayAct(c)
  /\ reqs < MaxReqs
  /\ canvas' = [canvas EXCEPT ![c] = << >>]
  /\ toServer' = IF connected[c] /\ clientRoom[c] # 0
                 THEN [toServer EXCEPT ![c] =
                         Append(toServer[c], Req("clear", clientRoom[c], 0))]
                 ELSE toServer
  /\ reqs' = reqs + 1
  /\ UNCHANGED <<serverVars, toClient, connected, isJoining, clientRoom, pendingStroke,
                 seqProcessed, seqRebuild, hm, nextStroke, lastSrv, nextId, dsVars, seqVars, unitVars>>

(***************************************************************************)
(* Server handlers.                                                        *)
(***************************************************************************)

\* RoomManager.createRoom: a room without users is made when none has the id
createRoom(rms, r) == IF r \in DOMAIN rms THEN rms ELSE MapSet(rms, r, {})

\* a createRoomState that makes a new drawing state at every call
createRoomState_Always(sts, r) == MapSet(sts, r, NewDrawingState)

\* StateManager.createRoomState: a drawing state is made when the room has none
createRoomState(sts, r) ==
  IF r \in DOMAIN sts THEN sts ELSE MapSet(sts, r, NewDrawingState)

\* a 'join-room' handler that sends the stored history, undone entries too
ServerOnJoin_SendsStored(c) ==
  /\ NextReq(c, "join-room")
  /\ LET r == Head(toServer[c]).roomId
         rooms1 == createRoom(rooms, r)
         states1 == createRoomState(roomStates, r)
     IN /\ rooms' = [rooms1 EXCEPT ![r] = rooms1[r] \cup {c}]
        /\ roomStates' = states1
        /\ userRooms' = MapSet(userRooms, c, r)
        /\ ioRooms' = [ioRooms EXCEPT ![c] = ioRooms[c] \cup {r}]
        /\ toClient' = Emit(c, RoomJoinedMsg(r, c, states1[r].history))
  /\ toServer' = [toServer EXCEPT ![c] = Tail(toServer[c])]
  /\ UNCHANGED <<clientVars, nextStroke, reqs, lastSrv, nextId, dsVars, seqVars, unitVars>>

\* socket.on('join-room'): the room and its drawing state are created when
\* missing, the user is added, and the active history is sent to the joiner
ServerOnJoin(c) ==
  /\ NextReq(c, "join-room")
  /\ LET r == Head(toServer[c]).roomId
         rooms1 == createRoom(rooms, r)
         states1 == createRoomState(roomStates, r)
     IN /\ rooms' = [rooms1 EXCEPT ![r] = rooms1[r] \cup {c}]
        /\ roomStates' = states1
        /\ userRooms' = MapSet(userRooms, c, r)
        /\ ioRooms' = [ioRooms EXCEPT ![c] = ioRooms[c] \cup {r}]
        /\ toClient' = Emit(c, RoomJoinedMsg(r, c, getHistory(states1[r])))
  /\ toServer' = [toServer EXCEPT ![c] = Tail(toServer[c])]
  /\ UNCHANGED <<clientVars, nextStroke, reqs, lastSrv, nextId, dsVars, seqVars, unitVars>>

\* socket.on('draw') and socket.on('clear'): both add an action
ServerAdd(c, op, type) ==
  /\ NextReq(c, op)
  /\ LET m == Head(toServer[c])
         r == m.roomId
         action == DrawingAction(nextId, c, type, m.data)
     IN IF ~IsMember(c, r)
        THEN /\ toClient' = Emit(c, ErrorMsg("Not in a room"))
             /\ lastSrv' = Handled(op, FALSE, c, r, null, PreState(r))
             /\ UNCHANGED <<roomStates, nextId>>
        ELSE IF r \notin DOMAIN roomStates
        THEN /\ toClient' = Emit(c, ErrorMsg(IF op = "draw" THEN "Failed to record drawing"
                                                 ELSE "Failed to clear canvas"))
             /\ lastSrv' = Handled(op, FALSE, c, r, null, PreState(r))
             /\ UNCHANGED <<roomStates, nextId>>
        ELSE /\ roomStates' = [roomStates EXCEPT ![r] = addAction(roomStates[r], action)]
             /\ nextId' = nextId + 1
             /\ toClient' = Broadcast(r, ResultMsg(op, c, action))
             /\ lastSrv' = Handled(op, TRUE, c, r, action, roomStates[r])
  /\ toServer' = [toServer EXCEPT ![c] = Tail(toServer[c])]
  /\ UNCHANGED <<rooms, userRooms, ioRooms, clientVars, nextStroke, reqs, dsVars, seqVars, unitVars>>

ServerOnDraw(c) == ServerAdd(c, "draw", "stroke")

ServerOnClear(c) == ServerAdd(c, "clear", "clear")

\* an undo handler that lets a user undo only an action of their own
ServerOnUndo_OwnOnly(c) ==
  /\ NextReq(c, "undo")
  /\ LET r == Head(toServer[c]).roomId
     IN IF ~IsMember(c, r)
        THEN /\ toClient' = Emit(c, ErrorMsg("Not in a room"))
             /\ lastSrv' = Handled("undo", FALSE, c, r, null, PreState(r))
             /\ UNCHANGED roomStates
        ELSE IF \/ r \notin DOMAIN roomStates
                \/ ~canUndo(roomStates[r])
                \/ At(roomStates[r].history, roomStates[r].currentIndex).userId # c
        THEN /\ toClient' = Emit(c, ErrorMsg("Nothing to undo"))
             /\ lastSrv' = Handled("undo", FALSE, c, r, null, PreState(r))
             /\ UNCHANGED roomStates
        ELSE LET u == undo(roomStates[r])
             IN /\ roomStates' = [roomStates EXCEPT ![r] = u.state]
                /\ IF u.ret = null
                   THEN /\ toClient' = Emit(c, ErrorMsg("Failed to undo"))
                        /\ lastSrv' = Handled("undo", FALSE, c, r, null, roomStates[r])
                   ELSE /\ toClient' = Broadcast(r, ResultMsg("undo", c, u.ret))
                        /\ lastSrv' = Handled("undo", TRUE, c, r, u.ret, roomStates[r])
  /\ toServer' = [toServer EXCEPT ![c] = Tail(toServer[c])]
  /\ UNCHANGED <<rooms, userRooms, ioRooms, clientVars, nextStroke, reqs, nextId, dsVars, seqVars, unitVars>>

\* an undo handler that sends its "Nothing to undo" to the whole room
ServerOnUndo_ErrorToRoom(c) ==
  /\ NextReq(c, "undo")
  /\ LET r == Head(toServer[c]).roomId
     IN IF ~IsMember(c, r)
        THEN /\ toClient' = Emit(c, ErrorMsg("Not in a room"))
             /\ lastSrv' = Handled("undo", FALSE, c, r, null, PreState(r))
             /\ UNCHANGED roomStates
        ELSE IF r \notin DOMAIN roomStates \/ ~canUndo(roomStates[r])
        THEN /\ toClient' = Broadcast(r, ErrorMsg("Nothing to undo"))
             /\ lastSrv' = Handled("undo", FALSE, c, r, null, PreState(r))
             /\ UNCHANGED roomStates
        ELSE LET u == undo(roomStates[r])
             IN /\ roomStates' = [roomStates EXCEPT ![r] = u.state]
                /\ IF u.ret = null
                   THEN /\ toClient' = Emit(c, ErrorMsg("Failed to undo"))
                        /\ lastSrv' = Handled("undo", FALSE, c, r, null, roomStates[r])
                   ELSE /\ toClient' = Broadcast(r, ResultMsg("undo", c, u.ret))
                        /\ lastSrv' = Handled("undo", TRUE, c, r, u.ret, roomStates[r])
  /\ toServer' = [toServer EXCEPT ![c] = Tail(toServer[c])]
  /\ UNCHANGED <<rooms, userRooms, ioRooms, clientVars, nextStroke, reqs, nextId, dsVars, seqVars, unitVars>>

\* socket.on('undo'): whoever asks, the room's DrawingState.undo() is called
ServerOnUndo(c) ==
  /\ NextReq(c, "undo")
  /\ LET r == Head(toServer[c]).roomId
     IN IF ~IsMember(c, r)
        THEN /\ toClient' = Emit(c, ErrorMsg("Not in a room"))
             /\ lastSrv' = Handled("undo", FALSE, c, r, null, PreState(r))
             /\ UNCHANGED roomStates
        ELSE IF r \notin DOMAIN roomStates \/ ~canUndo(roomStates[r])
        THEN /\ toClient' = Emit(c, ErrorMsg("Nothing to undo"))
             /\ lastSrv' = Handled("undo", FALSE, c, r, null, PreState(r))
             /\ UNCHANGED roomStates
        ELSE LET u == undo(roomStates[r])
             IN /\ roomStates' = [roomStates EXCEPT ![r] = u.state]
                /\ IF u.ret = null
                   THEN /\ toClient' = Emit(c, ErrorMsg("Failed to undo"))
                        /\ lastSrv' = Handled("undo", FALSE, c, r, null, roomStates[r])
                   ELSE /\ toClient' = Broadcast(r, ResultMsg("undo", c, u.ret))
                        /\ lastSrv' = Handled("undo", TRUE, c, r, u.ret, roomStates[r])
  /\ toServer' = [toServer EXCEPT ![c] = Tail(toServer[c])]
  /\ UNCHANGED <<rooms, userRooms, ioRooms, clientVars, nextStroke, reqs, nextId, dsVars, seqVars, unitVars>>

\* socket.on('redo')
ServerOnRedo(c) ==
  /\ NextReq(c, "redo")
  /\ LET r == Head(toServer[c]).roomId
     IN IF ~IsMember(c, r)
        THEN /\ toClient' = Emit(c, ErrorMsg("Not in a room"))
             /\ lastSrv' = Handled("redo", FALSE, c, r, null, PreState(r))
             /\ UNCHANGED roomStates
        ELSE IF r \notin DOMAIN roomStates \/ ~canRedo(roomStates[r])
        THEN /\ toClient' = Emit(c, ErrorMsg("Nothing to redo"))
             /\ lastSrv' = Handled("redo", FALSE, c, r, null, PreState(r))
             /\ UNCHANGED roomStates
        ELSE LET u == redo(roomStates[r])
             IN /\ roomStates' = [roomStates EXCEPT ![r] = u.state]
                /\ IF u.ret = null
                   THEN /\ toClient' = Emit(c, ErrorMsg("Failed to redo"))
                        /\ lastSrv' = Handled("redo", FALSE, c, r, null, roomStates[r])
                   ELSE /\ toClient' = Broadcast(r, ResultMsg("redo", c, u.ret))
                        /\ lastSrv' = Handled("redo", TRUE, c, r, u.ret, roomStates[r])
  /\ toServer' = [toServer EXCEPT ![c] = Tail(toServer[c])]
  /\ UNCHANGED <<rooms, userRooms, ioRooms, clientVars, nextStroke, reqs, nextId, dsVars, seqVars, unitVars>>

\* RoomManager.removeUserFromRoom: the user is taken out of the room's users
\* and the room is deleted when it is left empty; nothing when the room is
\* not found
removeUserFromRoom(rms, r, c) ==
  IF r \notin DOMAIN rms THEN rms
  ELSE IF rms[r] \ {c} = {} THEN MapDelete(rms, r)
  ELSE [rms EXCEPT ![r] = rms[r] \ {c}]

\* socket.on('disconnect'): the user is removed from the room userRooms
\* names for the socket, the room's drawing state is deleted when the room
\* is gone or empty, and the socket is forgotten; socket.io takes the socket
\* out of its rooms and drops what was on its way to it
ServerOnDisconnect(c) ==
  /\ NextReq(c, "disconnect")
  /\ IF c \in DOMAIN userRooms
     THEN LET r == userRooms[c]
              rooms1 == removeUserFromRoom(rooms, r, c)
          IN /\ rooms' = rooms1
             /\ roomStates' = IF r \notin DOMAIN rooms1 \/ rooms1[r] = {}
                               THEN MapDelete(roomStates, r)
                               ELSE roomStates
             /\ lastSrv' = Handled("disconnect", TRUE, c, r, null, PreState(r))
     ELSE /\ UNCHANGED <<rooms, roomStates>>
          /\ lastSrv' = Handled("disconnect", FALSE, c, 0, null, NewDrawingState)
  /\ userRooms' = MapDelete(userRooms, c)
  /\ ioRooms' = [ioRooms EXCEPT ![c] = {}]
  /\ toClient' = [toClient EXCEPT ![c] = << >>]
  /\ toServer' = [toServer EXCEPT ![c] = Tail(toServer[c])]
  /\ UNCHANGED <<clientVars, nextStroke, reqs, nextId, dsVars, seqVars, unitVars>>

(***************************************************************************)
(* Client handlers.                                                        *)
(***************************************************************************)
\* the next event an open socket is to handle
NextMsg(c, type) ==
  connected[c] /\ toClient[c] # << >> /\ Head(toClient[c]).type = type

Consume(c) == [toClient EXCEPT ![c] = Tail(toClient[c])]

\* socket 'room-joined' -> RoomManager -> App 'RoomJoined': the room id is
\* stored and the canvas is rendered from the history in the message
ClientOnRoomJoined(c) ==
  /\ NextMsg(c, "room-joined")
  /\ clientRoom' = [clientRoom EXCEPT ![c] = Head(toClient[c]).roomId]
  /\ LET data == Head(toClient[c])
     IN /\ hm' = IF Has(data, "canUndo") \/ Has(data, "canRedo")
                  THEN [hm EXCEPT ![c] = updateHistoryState(hm[c], data)]
                  ELSE hm
        /\ canvas' = IF Has(data, "history")
                      THEN [canvas EXCEPT ![c] = renderFromHistory(data.history)]
                      ELSE canvas
  /\ isJoining' = [isJoining EXCEPT ![c] = FALSE]
  /\ toClient' = Consume(c)
  /\ UNCHANGED <<serverVars, toServer, connected, pendingStroke, seqProcessed,
                 seqRebuild, nextStroke, reqs, lastSrv, nextId, dsVars, seqVars, unitVars>>

\* ActionSequencer._validateStrokeAction: data with x, y, a #rrggbb color,
\* an integer size in 1..100 and a tool
validateStrokeAction(action) == action.data # MalformedStroke

\* ActionSequencer._validateAction (the App stamps every action it
\* enqueues with a timestamp)
validateAction(action) ==
  /\ action.type \in {"stroke", "clear", "undo", "redo"}
  /\ action.userId # 0
  /\ action.type = "stroke" => validateStrokeAction(action)

\* ActionSequencer.enqueueAction + processQueue for an action stamped with
\* the time of its arrival: it is neither stale nor out of order, so it is
\* recorded as processed
Sequenced(c, type, id) == Append(seqProcessed[c], [type |-> type, id |-> id])

\* socket 'draw' -> App 'Draw'.  A client's own stroke is skipped.  For a
\* remote stroke the action is enqueued (unless enqueueAction finds it
\* invalid) and processQueue() is called; it
\* returns the array of processed actions, and the handler then evaluates
\* processed.actions.forEach(...), where processed.actions is undefined: a
\* TypeError ends the handler before applyRemoteStroke, the checkpoint and
\* the rebuild, so nothing is painted
ClientOnDraw(c) ==
  /\ NextMsg(c, "draw")
  /\ LET m == Head(toClient[c])
         action == [type |-> "stroke", userId |-> m.userId, data |-> m.action.data]
     IN seqProcessed' = IF m.userId # c /\ validateAction(action)
                        THEN [seqProcessed EXCEPT ![c] = Sequenced(c, "stroke", m.action.id)]
                        ELSE seqProcessed
  /\ toClient' = Consume(c)
  /\ UNCHANGED <<serverVars, toServer, connected, isJoining, clientRoom, canvas, pendingStroke,
                 seqRebuild, hm, nextStroke, reqs, lastSrv, nextId, dsVars, seqVars, unitVars>>

\* socket 'clear' -> App 'Clear'.  A client's own clear is skipped.  For a
\* remote clear the action is enqueued and processed; it is logged as
\* CLEAR_DURING_DRAW (requiresRebuild) when a processed stroke is less than
\* a second old, which depends on the time that has passed (recent).  The
\* handler then evaluates processed.actions.length on the returned array: a
\* TypeError ends it before clearCanvas, so the canvas is not wiped
ClientOnClear(c) ==
  /\ NextMsg(c, "clear")
  /\ LET m == Head(toClient[c])
         strokes == {i \in DOMAIN seqProcessed[c] : seqProcessed[c][i].type = "stroke"}
     IN IF m.userId # c
        THEN /\ seqProcessed' = [seqProcessed EXCEPT ![c] = Sequenced(c, "clear", 0)]
             /\ \E recent \in BOOLEAN :
                  /\ recent => strokes # {}
                  /\ seqRebuild' = [seqRebuild EXCEPT ![c] = seqRebuild[c] \/ recent]
        ELSE UNCHANGED <<seqProcessed, seqRebuild>>
  /\ toClient' = Consume(c)
  /\ UNCHANGED <<serverVars, toServer, connected, isJoining, clientRoom, canvas, pendingStroke,
                 hm, nextStroke, reqs, lastSrv, nextId, dsVars, seqVars, unitVars>>

\* socket 'undo' / 'redo' -> HistoryManager.handleUndoResponse /
\* handleRedoResponse, whoever asked: updateHistoryState takes canUndo and
\* canRedo from the message when it defines them, and the undo-complete /
\* redo-complete callback wipes the canvas and renders data.history when
\* the message has one.  socket 'error': a notification.
ClientOnOther(c) ==
  /\ connected[c]
  /\ toClient[c] # << >>
  /\ Head(toClient[c]).type \in {"undo", "redo", "error"}
  /\ LET data == Head(toClient[c])
     IN IF data.type = "error"
        THEN UNCHANGED <<hm, canvas>>
        ELSE /\ hm' = [hm EXCEPT ![c] = updateHistoryState(hm[c], data)]
             /\ canvas' = IF Has(data, "history")
                           THEN [canvas EXCEPT ![c] = renderFromHistory(data.history)]
                           ELSE canvas
  /\ toClient' = Consume(c)
  /\ UNCHANGED <<serverVars, toServer, connected, isJoining, clientRoom, pendingStroke,
                 seqProcessed, seqRebuild, nextStroke, reqs, lastSrv, nextId, dsVars, seqVars, unitVars>>

Init ==
  /\ SysInit
  /\ nextId = 1
  /\ DSIdle
  /\ SeqIdle
  /\ UnitIdle

Next ==
  \/ \E c \in Sockets : \E r \in RoomChoices(c) : ClientFirstJoin(c, r)
  \/ \E c \in Sockets : ClientDraw(c)
  \/ \E c \in Sockets : DebounceFire(c)
  \/ \E c \in Sockets : ClientSendMalformed(c)
  \/ \E c \in Sockets : ClientUndo(c)
  \/ \E c \in Sockets : ClientRedo(c)
  \/ \E c \in Sockets : ClientClear(c)
  \/ \E c \in Sockets : ServerOnJoin(c)
  \/ \E c \in Sockets : ServerOnDraw(c)
  \/ \E c \in Sockets : ServerOnClear(c)
  \/ \E c \in Sockets : ServerOnUndo(c)
  \/ \E c \in Sockets : ServerOnRedo(c)
  \/ \E c \in Sockets : ClientOnRoomJoined(c)
  \/ \E c \in Sockets : ClientOnDraw(c)
  \/ \E c \in Sockets : ClientOnClear(c)
  \/ \E c \in Sockets : ClientOnOther(c)

Spec == Init /\ [][Next]_vars

(***************************************************************************)
(* The rooms as users come and go: a user joins a room, may join again     *)
(* (the same room or another, on the same socket), draws, and disconnects. *)
(***************************************************************************)
RoomsNext ==
  \/ \E c \in Sockets : \E r \in RoomIds : ClientJoin(c, r)
  \/ \E c \in Sockets : ClientDraw(c)
  \/ \E c \in Sockets : DebounceFire(c)
  \/ \E c \in Sockets : ClientDisconnect(c)
  \/ \E c \in Sockets : ServerOnJoin(c)
  \/ \E c \in Sockets : ServerOnDraw(c)
  \/ \E c \in Sockets : ServerOnDisconnect(c)
  \/ \E c \in Sockets : ClientOnRoomJoined(c)
  \/ \E c \in Sockets : ClientOnDraw(c)

SpecRooms == Init /\ [][RoomsNext]_vars

(***************************************************************************)
(* The server facing any socket.io client: the roomId of an event is an    *)
(* argument the client chooses, so a socket may name any room in any       *)
(* event, whether it joined it or not.                                     *)
(***************************************************************************)

\* the events a client may emit with a roomId
EmitTypes == {"join-room", "draw", "undo", "redo", "clear"}

\* socket.emit(type, roomId, ...) by an open socket
SocketEmit(c, type, r) ==
  /\ connected[c]
  /\ reqs < MaxReqs
  /\ toServer' = [toServer EXCEPT ![c] = Append(toServer[c], Req(type, r, 1))]
  /\ reqs' = reqs + 1
  /\ UNCHANGED <<serverVars, toClient, clientVars, nextStroke, lastSrv, nextId,
                 dsVars, seqVars, unitVars>>

ServerNext ==
  \/ \E c \in Sockets, type \in EmitTypes, r \in RoomIds : SocketEmit(c, type, r)
  \/ \E c \in Sockets : ServerOnJoin(c)
  \/ \E c \in Sockets : ServerOnDraw(c)
  \/ \E c \in Sockets : ServerOnClear(c)
  \/ \E c \in Sockets : ServerOnUndo(c)
  \/ \E c \in Sockets : ServerOnRedo(c)

SpecServer == Init /\ [][ServerNext]_vars

(***************************************************************************)
(* C1: convergence.  Once every emitted event has been handled (nothing is *)
(* in flight and no debounced stroke is waiting), the strokes each member  *)
(* of a room has on its canvas are those that rendering the server's       *)
(* active slice history[0..currentIndex] of that room gives.               *)
(***************************************************************************)
Quiescent ==
  /\ \A c \in Sockets : toServer[c] = << >> /\ toClient[c] = << >>
  /\ \A c \in Sockets : pendingStroke[c] = 0

C1_Convergence ==
  Quiescent =>
    \A r \in DOMAIN roomStates : \A c \in Sockets :
      (IsMember(c, r) /\ clientRoom[c] = r) =>
         Range(canvas[c]) = Range(renderFromHistory(getHistory(roomStates[r])))

HandlesReq(c, type) == NextReq(c, type) /\ toServer'[c] = Tail(toServer[c])

\* client c handles the event of this type that was emitted to it
HandlesMsg(c, type) == NextMsg(c, type) /\ toClient'[c] = Tail(toClient[c])

\* the step emits one 'error' to socket c and nothing to any other socket
ErrorOnlyTo(c) ==
  /\ Len(toClient'[c]) = Len(toClient[c]) + 1
  /\ SubSeq(toClient'[c], 1, Len(toClient[c])) = toClient[c]
  /\ toClient'[c][Len(toClient'[c])].type = "error"
  /\ \A d \in Sockets \ {c} : toClient'[d] = toClient[d]

(***************************************************************************)
(* C13: when a member of a room asks for an undo while currentIndex = -1,  *)
(* or for a redo while currentIndex = history.length - 1, the server emits *)
(* an error to the asking socket only, emits nothing to any other socket,  *)
(* and leaves the history and currentIndex of every room as they were.     *)
(***************************************************************************)
NothingToDo(c, type) ==
  LET r == Head(toServer[c]).roomId
  IN /\ IsMember(c, r)
     /\ r \in DOMAIN roomStates
     /\ IF type = "undo" THEN ~canUndo(roomStates[r]) ELSE ~canRedo(roomStates[r])

C13_NoOpReportedToRequesterOnly ==
  [][\A c \in Sockets : \A type \in {"undo", "redo"} :
       (HandlesReq(c, type) /\ NothingToDo(c, type)) =>
          /\ ErrorOnlyTo(c)
          /\ roomStates' = roomStates]_vars

\* in a room of two members whose only entry was undone, one more undo was
\* asked and refused
C13_Witness ==
  /\ lastSrv.op = "undo"
  /\ ~lastSrv.ok
  /\ IsMember(lastSrv.by, lastSrv.roomId)
  /\ Cardinality(rooms[lastSrv.roomId]) = 2
  /\ \A d \in rooms[lastSrv.roomId] : lastSrv.roomId \in ioRooms[d]
  /\ ~canUndo(lastSrv.pre)
  /\ Len(lastSrv.pre.history) >= 1
  /\ roomStates[lastSrv.roomId] = lastSrv.pre

(***************************************************************************)
(* C14: a draw request whose stroke data lacks the stroke fields is        *)
(* answered with an error to the asking socket only and is not appended:   *)
(* no room's history or currentIndex changes and nothing is broadcast.     *)
(***************************************************************************)
C14_MalformedDrawRejected ==
  [][\A c \in Sockets :
       (HandlesReq(c, "draw") /\ Head(toServer[c]).data = MalformedStroke) =>
          /\ ErrorOnlyTo(c)
          /\ roomStates' = roomStates]_vars

(***************************************************************************)
(* C15: every successful draw/undo/redo/clear result is emitted to every   *)
(* member of the room, the asking socket included, and a client handles a  *)
(* draw or clear result the same way whether or not its userId is the      *)
(* client's own: the action goes through the sequencer.                    *)
(***************************************************************************)
C15_ResultsToAllSamePath ==
  [][/\ \A c \in Sockets : \A type \in ResultTypes :
          (HandlesReq(c, type) /\ lastSrv'.ok) =>
             \A d \in rooms[lastSrv'.roomId] :
                toClient'[d] = Append(toClient[d], ResultMsg(type, c, lastSrv'.action))
     /\ \A c \in Sockets :
          (HandlesMsg(c, "draw")
             /\ validateAction([type |-> "stroke", userId |-> Head(toClient[c]).userId,
                                data |-> Head(toClient[c]).action.data])) =>
             seqProcessed'[c] = Sequenced(c, "stroke", Head(toClient[c]).action.id)
     /\ \A c \in Sockets :
          HandlesMsg(c, "clear") => seqProcessed'[c] = Sequenced(c, "clear", 0)]_vars

(***************************************************************************)
(* C16: every draw, undo, redo and clear message the server emits carries  *)
(* the resulting cursor and historyLength of the room's history beside the *)
(* action.                                                                 *)
(***************************************************************************)
C16_ResultsCarryCursor ==
  \A c \in Sockets : \A i \in DOMAIN toClient[c] :
     toClient[c][i].type \in ResultTypes =>
        /\ Has(toClient[c][i], "action")
        /\ Has(toClient[c][i], "cursor")
        /\ Has(toClient[c][i], "historyLength")

(***************************************************************************)
(* C17: the undo or redo message a client receives carries the updated     *)
(* history and the canUndo/canRedo flags: once the client has handled it   *)
(* (and no later message is waiting), its HistoryManager's canUndo and     *)
(* canRedo are the room's canUndo() and canRedo() on the server.           *)
(***************************************************************************)
C17_ClientsLearnUndoRedoState ==
  [][\A c \in Sockets : \A type \in {"undo", "redo"} :
       (/\ HandlesMsg(c, type)
        /\ Len(toClient[c]) = 1
        /\ clientRoom[c] \in DOMAIN roomStates
        /\ IsMember(c, clientRoom[c])) =>
          /\ Has(Head(toClient[c]), "history")
          /\ hm'[c].canUndo = canUndo(roomStates[clientRoom[c]])
          /\ hm'[c].canRedo = canRedo(roomStates[clientRoom[c]])]_vars

(***************************************************************************)
(* C21: the in-order common path.  When a client handles a well-formed     *)
(* draw message of another user, the stroke is painted on its canvas once  *)
(* (after whatever was there) and is recorded as processed.                *)
(***************************************************************************)
C21_RemoteStrokeApplied ==
  [][\A c \in Sockets :
       (/\ HandlesMsg(c, "draw")
        /\ Head(toClient[c]).userId # c
        /\ Head(toClient[c]).action.data # MalformedStroke) =>
          /\ canvas'[c] = Append(canvas[c], Head(toClient[c]).action.data)
          /\ seqProcessed'[c] =
                Append(seqProcessed[c],
                       [type |-> "stroke", id |-> Head(toClient[c]).action.id])]_vars

(***************************************************************************)
(* C25: the lifecycle of a room's history.  After every server handler a   *)
(* drawing state exists for exactly the rooms the RoomManager holds, and   *)
(* every room has a member; handling a join leaves the room with a drawing *)
(* state, and when the socket that disconnects is the only member of a     *)
(* room, that room's drawing state is deleted.                             *)
(***************************************************************************)
C25_RoomLifecycle ==
  [][/\ DOMAIN roomStates' = DOMAIN rooms'
     /\ \A r \in DOMAIN rooms' : rooms'[r] # {}
     /\ \A c \in Sockets :
          /\ HandlesReq(c, "join-room") =>
                Head(toServer[c]).roomId \in DOMAIN roomStates'
          /\ HandlesReq(c, "disconnect") =>
                \A r \in DOMAIN rooms : rooms[r] = {c} => r \notin DOMAIN roomStates']_vars

(***************************************************************************)
(* C36: after the disconnect handler of a socket has run, the socket is a  *)
(* member of no room, whatever rooms it joined before; so no room and no   *)
(* drawing state is left whose only member is that socket.                 *)
(***************************************************************************)
C36_DisconnectLeavesAllRooms ==
  [][\A c \in Sockets :
       HandlesReq(c, "disconnect") =>
          /\ \A r \in DOMAIN rooms' : c \notin rooms'[r]
          /\ \A r \in DOMAIN roomStates' : r \in DOMAIN rooms' /\ rooms'[r] # {c}]_vars

(***************************************************************************)
(* C37: only members can change a room.  When the server handles a draw,   *)
(* undo, redo or clear that names a room the requesting socket is not a    *)
(* member of, or a room that does not exist, every room's history and      *)
(* currentIndex stay as they were, nothing is emitted to any other socket, *)
(* and the requester is sent one error.                                    *)
(***************************************************************************)
C37_OnlyMembersMutate ==
  [][\A c \in Sockets : \A op \in ResultTypes :
       (/\ HandlesReq(c, op)
        /\ \/ Head(toServer[c]).roomId \notin DOMAIN rooms
           \/ c \notin rooms[Head(toServer[c]).roomId])
         => /\ roomStates' = roomStates
            /\ \A d \in Sockets \ {c} : toClient'[d] = toClient[d]
            /\ \E message \in {"Not in a room"} :
                  toClient'[c] = Append(toClient[c], ErrorMsg(message))]_vars

\* a socket that is not a member of a room that exists and has a history
\* asked for a change of it and was refused
C37_Witness ==
  /\ lastSrv.op \in ResultTypes
  /\ ~lastSrv.ok
  /\ lastSrv.roomId \in DOMAIN rooms
  /\ lastSrv.by \notin rooms[lastSrv.roomId]
  /\ lastSrv.roomId \in DOMAIN roomStates
  /\ roomStates[lastSrv.roomId].history # << >>
  /\ toClient[lastSrv.by] # << >>
  /\ toClient[lastSrv.by][Len(toClient[lastSrv.by])] = ErrorMsg("Not in a room")

(***************************************************************************)
(* C38: createRoom and createRoomState are idempotent.  When the server    *)
(* handles a join of a room that exists, the room keeps the members it     *)
(* had and gains the joiner, its history and currentIndex stay as they     *)
(* were, and the other rooms are untouched.                                *)
(***************************************************************************)
C38_JoinPreservesRoom ==
  [][\A c \in Sockets :
       (HandlesReq(c, "join-room") /\ Head(toServer[c]).roomId \in DOMAIN rooms) =>
          LET r == Head(toServer[c]).roomId
          IN /\ DOMAIN rooms' = DOMAIN rooms
             /\ rooms' = [rooms EXCEPT ![r] = rooms[r] \cup {c}]
             /\ DOMAIN roomStates' = DOMAIN roomStates \cup {r}
             /\ \A q \in DOMAIN roomStates : roomStates'[q] = roomStates[q]]_vars

\* socket 2 joined a room in which socket 1 had drawn, and was sent the
\* room's history
C38_Witness ==
  \E r \in DOMAIN rooms :
     /\ rooms[r] = {1, 2}
     /\ roomStates[r].currentIndex >= 0
     /\ toClient[2] # << >>
     /\ toClient[2][Len(toClient[2])].type = "room-joined"
     /\ toClient[2][Len(toClient[2])].roomId = r
     /\ toClient[2][Len(toClient[2])].history # << >>

C27_SnapshotOnJoin ==
  [][\A c \in Sockets :
       /\ HandlesReq(c, "join-room") =>
            LET r == Head(toServer[c]).roomId
                sent == toClient'[c][Len(toClient'[c])]
            IN /\ Len(toClient'[c]) = Len(toClient[c]) + 1
               /\ sent.type = "room-joined"
               /\ sent.roomId = r
               /\ sent.history = getHistory(roomStates'[r])
               /\ r \in DOMAIN roomStates => roomStates'[r] = roomStates[r]
       /\ \A op \in {"draw", "clear"} :
            (HandlesReq(c, op) /\ lastSrv'.ok) =>
               \A d \in rooms[Head(toServer[c]).roomId] :
                  /\ toClient'[d] =
                        Append(toClient[d], ResultMsg(op, c, lastSrv'.action))
                  /\ lastSrv'.action \in Range(roomStates'[Head(toServer[c]).roomId].history)]_vars

\* socket 1 joined a room whose only entry was undone and was sent an empty
\* history; socket 2 then drew, and the stroke follows room-joined on the
\* way to socket 1
C27_Witness ==
  /\ lastSrv.op = "draw"
  /\ lastSrv.ok
  /\ lastSrv.by = 2
  /\ lastSrv.pre.history # << >>
  /\ lastSrv.pre.currentIndex = -1
  /\ Len(toClient[1]) = 2
  /\ toClient[1][1].type = "room-joined"
  /\ toClient[1][1].history = << >>
  /\ toClient[1][2] = ResultMsg("draw", 2, lastSrv.action)

\* one logged request carried out on a drawing state
ApplyLogged(st, e) ==
  IF e.op \in {"draw", "clear"} THEN addAction(st, e.action)
  ELSE IF e.op = "undo" THEN undo(st).state
  ELSE redo(st).state

\* the requests of a log applied one at a time, in the order of the log, to
\* the drawing state of room r, from the state a new room has
RECURSIVE ReplayLog(_, _)
ReplayLog(log, r) ==
  IF log = << >> THEN NewDrawingState
  ELSE LET e == log[Len(log)]
           st == ReplayLog(SubSeq(log, 1, Len(log) - 1), r)
       IN IF e.roomId = r THEN ApplyLogged(st, e) ELSE st

\* the results of the last n requests of a log that were carried out on room r
LastResults(log, r, n) ==
  LET mine == SelectSeq(log, LAMBDA e : e.roomId = r)
  IN [i \in 1..n |-> LET e == mine[Len(mine) - n + i]
                     IN ResultMsg(e.op, e.by, e.action)]

IsResult(m) == m.type \in ResultTypes

(***************************************************************************)
(* C28: the mutating requests on a room are linearized.  The room's        *)
(* (history, currentIndex) is what applying the requests carried out so    *)
(* far, one at a time in the order the server handled them, gives; a       *)
(* handler applies one whole operation to the state the handler before it  *)
(* left, or nothing; and the results on their way to a member are in the   *)
(* order of handling.                                                      *)
(***************************************************************************)
C28_Linearized ==
  [][/\ \A r \in DOMAIN roomStates' : roomStates'[r] = ReplayLog(lastSrv'.log, r)
     /\ \A d \in DOMAIN userRooms' :
          LET res == SelectSeq(toClient'[d], IsResult)
              mine == SelectSeq(lastSrv'.log, LAMBDA e : e.roomId = userRooms'[d])
          IN /\ Len(res) <= Len(mine)
             /\ res = LastResults(lastSrv'.log, userRooms'[d], Len(res))
     /\ \A c \in Sockets : \A op \in ResultTypes :
          HandlesReq(c, op) =>
            LET r == Head(toServer[c]).roomId
                e == [op |-> op, by |-> c, roomId |-> r, action |-> lastSrv'.action]
            IN IF lastSrv'.ok
               THEN /\ lastSrv'.log = Append(lastSrv.log, e)
                    /\ roomStates' = [roomStates EXCEPT ![r] = ApplyLogged(roomStates[r], e)]
               ELSE /\ lastSrv'.log = lastSrv.log
                    /\ roomStates' = roomStates]_vars

\* two requests on one room were under way at once, and the server carried
\* out the later-drawn stroke of socket 2 while the earlier-drawn stroke of
\* socket 1 was still on its way
C28_Witness ==
  /\ lastSrv.op = "draw" /\ lastSrv.ok /\ lastSrv.by = 2
  /\ toServer[1] # << >>
  /\ Head(toServer[1]).type = "draw"
  /\ Head(toServer[1]).roomId = lastSrv.roomId
  /\ Head(toServer[1]).data # MalformedStroke
  /\ Head(toServer[1]).data < lastSrv.action.data
  /\ 1 \in rooms[lastSrv.roomId]

(***************************************************************************)
(* ActionSequencer: a record [actionQueue, processedActions, conflictLog,  *)
(* lastProcessedTimestamp].  An action is [id, type, userId, timestamp,    *)
(* data]; enqueuedAt, processed and processedAt are written and never read *)
(* and are left out.  A conflictLog entry keeps the action's id, the       *)
(* conflict type and the resolution.                                       *)
(***************************************************************************)

\* enqueueAction: an invalid action is refused; a full queue drops its oldest
enqueueAction(q, action) ==
  IF ~validateAction(action) THEN q
  ELSE LET room == IF Len(q.actionQueue) >= maxQueueSize
                   THEN Tail(q.actionQueue) ELSE q.actionQueue
       IN [q EXCEPT !.actionQueue = Append(room, action)]

\* _detectConflict that does not look for recent strokes when a clear comes
detectConflict_NoClearCheck(q, action, now) ==
  IF now - action.timestamp > staleAfter THEN "stale-action"
  ELSE IF action.timestamp < q.lastProcessedTimestamp THEN "order-mismatch"
  ELSE "no-conflict"

\* _detectConflict: the type of the conflict found, tested in this order
detectConflict(q, action, now) ==
  IF now - action.timestamp > staleAfter THEN "stale-action"
  ELSE IF action.timestamp < q.lastProcessedTimestamp THEN "order-mismatch"
  ELSE IF /\ action.type = "clear"
          /\ \E i \in DOMAIN q.processedActions :
                /\ q.processedActions[i].type = "stroke"
                /\ now - q.processedActions[i].timestamp < recentWindow
       THEN "clear-during-draw"
  ELSE "no-conflict"

\* a _resolveConflict that lets a stale action through
resolveConflict_AcceptsStale(conflict) ==
  IF conflict = "stale-action"
  THEN [shouldProcess |-> TRUE, strategy |-> "reject", requiresRebuild |-> FALSE]
  ELSE IF conflict = "order-mismatch"
  THEN [shouldProcess |-> TRUE, strategy |-> "rebuild", requiresRebuild |-> TRUE]
  ELSE IF conflict = "clear-during-draw"
  THEN [shouldProcess |-> TRUE, strategy |-> "merge", requiresRebuild |-> TRUE]
  ELSE [shouldProcess |-> TRUE, strategy |-> "accept", requiresRebuild |-> FALSE]

\* _resolveConflict
resolveConflict(conflict) ==
  IF conflict = "stale-action"
  THEN [shouldProcess |-> FALSE, strategy |-> "reject", requiresRebuild |-> FALSE]
  ELSE IF conflict = "order-mismatch"
  THEN [shouldProcess |-> TRUE, strategy |-> "rebuild", requiresRebuild |-> TRUE]
  ELSE IF conflict = "clear-during-draw"
  THEN [shouldProcess |-> TRUE, strategy |-> "merge", requiresRebuild |-> TRUE]
  ELSE [shouldProcess |-> TRUE, strategy |-> "accept", requiresRebuild |-> FALSE]

\* processQueue: the queue is emptied from its head; each action is tested
\* against what was processed before it, logged when a conflict is found,
\* and processed unless the resolution says not to.  Returns the sequencer
\* after the pass and the batch of processed actions.
RECURSIVE processQueueFrom(_, _, _)
processQueueFrom(q, batch, now) ==
  IF q.actionQueue = << >> THEN [state |-> q, ret |-> batch]
  ELSE LET action == Head(q.actionQueue)
           conflict == detectConflict(q, action, now)
           resolved == resolveConflict(conflict)
           logged == IF conflict # "no-conflict"
                     THEN Append(q.conflictLog,
                                 [id |-> action.id, conflict |-> conflict,
                                  resolution |-> resolved])
                     ELSE q.conflictLog
           q1 == [q EXCEPT !.actionQueue = Tail(q.actionQueue),
                           !.conflictLog = logged]
       IN IF conflict # "no-conflict" /\ ~resolved.shouldProcess
          THEN processQueueFrom(q1, batch, now)
          ELSE processQueueFrom(
                 [q1 EXCEPT !.processedActions = Append(q.processedActions, action),
                            !.lastProcessedTimestamp =
                               IF action.timestamp # 0 THEN action.timestamp ELSE now],
                 Append(batch, action), now)

processQueue(q, now) == processQueueFrom(q, << >>, now)

\* needsRebuild
needsRebuild(q) ==
  \E i \in DOMAIN q.conflictLog : q.conflictLog[i].resolution.requiresRebuild

(***************************************************************************)
(* The sequencer at work.  The server's results are numbered 1, 2, ... in  *)
(* the order the server produced them; the client is handed the next one,  *)
(* or the one after a result it never received, or the last one again.     *)
(***************************************************************************)
LastSent == sqSent[Len(sqSent)]

\* the App's 'Draw' / 'Clear' handler up to the return of processQueue():
\* the action is built from the message, enqueued, and the queue processed
SeqReceive(kind, type, age) ==
  /\ Len(sqSent) < MaxDeliveries
  /\ kind = "dup" => sqSent # << >>
  /\ LET id == IF kind = "dup" THEN LastSent.id
               ELSE IF sqSent = << >> THEN (IF kind = "gap" THEN 2 ELSE 1)
               ELSE LastSent.id + (IF kind = "gap" THEN 2 ELSE 1)
         ty == IF kind = "dup" THEN LastSent.type ELSE type
         action == [id |-> id, type |-> ty, userId |-> 1,
                    timestamp |-> clock - age, data |-> id]
         done == processQueue(enqueueAction(sq, action), clock)
     IN /\ kind = "dup" => type = LastSent.type
        /\ sq' = done.state
        /\ sqBatch' = done.ret
        /\ sqIn' = [id |-> id, kind |-> kind, type |-> ty, timestamp |-> clock - age,
                    at |-> clock]
        /\ sqSent' = Append(sqSent, action)
  /\ sqPrev' = sq
  /\ UNCHANGED <<clock, sqTicks, dsVars, nextId, sysVars, unitVars>>

\* time passes
SeqTick(dt) ==
  /\ sqTicks < MaxTicks
  /\ clock' = clock + dt
  /\ sqTicks' = sqTicks + 1
  /\ UNCHANGED <<sq, sqPrev, sqBatch, sqIn, sqSent, dsVars, nextId, sysVars, unitVars>>

SeqInit ==
  /\ SeqIdle
  /\ DSIdle
  /\ nextId = 1
  /\ SysInit
  /\ UnitIdle

SeqNext ==
  \/ \E kind \in {"next", "gap", "dup"}, type \in {"stroke", "clear"}, age \in Ages :
        SeqReceive(kind, type, age)
  \/ \E dt \in Delays : SeqTick(dt)

SpecSeq == SeqInit /\ [][SeqNext]_vars

\* the ids of the actions in an array
SeqIds(arr) == {arr[i].id : i \in DOMAIN arr}

(***************************************************************************)
(* C18: gap recovery.  When the client never received the result at        *)
(* position i and is handed the one at position i + 1, the sequencer does  *)
(* not pass it on for rendering (it is not in the batch processQueue       *)
(* returns, nor in processedActions) until the gap is resolved.            *)
(***************************************************************************)
C18_GapHeldBack ==
  sqIn.kind = "gap" =>
    /\ sqIn.id \notin SeqIds(sqBatch)
    /\ sqIn.id \notin SeqIds(sq.processedActions)

(***************************************************************************)
(* C19: an action the sequencer has already processed and is handed again  *)
(* is discarded: it is not returned for rendering and processedActions     *)
(* holds no action twice.                                                  *)
(***************************************************************************)
C19_DuplicateDiscarded ==
  /\ (sqIn.kind = "dup" /\ sqIn.id \in SeqIds(sqPrev.processedActions)) =>
        /\ sqBatch = << >>
        /\ sq.processedActions = sqPrev.processedActions
  /\ \A i, j \in DOMAIN sq.processedActions :
        i # j => sq.processedActions[i].id # sq.processedActions[j].id

(***************************************************************************)
(* C20: whenever the sequencer processes a clear action, needsRebuild() is *)
(* true after the pass, whether or not a stroke was processed shortly      *)
(* before.                                                                 *)
(***************************************************************************)
ClearProcessed ==
  \E i \in DOMAIN sqBatch : sqBatch[i].type = "clear"

C20_ClearAlwaysMarksRebuild == ClearProcessed => needsRebuild(sq)

(***************************************************************************)
(* C20 as amended: after a pass that processed a clear action,             *)
(* needsRebuild() is true exactly when it was true before the pass, or the *)
(* clear is out of order (its timestamp is before lastProcessedTimestamp), *)
(* or a processed stroke was less than recentWindow ms old when the clear  *)
(* was processed.                                                          *)
(***************************************************************************)
RecentStroke ==
  \E i \in DOMAIN sqPrev.processedActions :
     /\ sqPrev.processedActions[i].type = "stroke"
     /\ sqIn.at - sqPrev.processedActions[i].timestamp < recentWindow

C20_ClearMarksRebuildOnConflict ==
  ClearProcessed =>
    (needsRebuild(sq) <=>
       \/ needsRebuild(sqPrev)
       \/ sqIn.timestamp < sqPrev.lastProcessedTimestamp
       \/ RecentStroke)

\* a clear processed recentWindow - 1 ms after a stroke, in order, with no
\* rebuild pending before: it is what marks the rebuild
C20_Witness ==
  /\ ClearProcessed
  /\ RecentStroke
  /\ sqIn.timestamp >= sqPrev.lastProcessedTimestamp
  /\ sqIn.at - sqPrev.lastProcessedTimestamp = recentWindow - 1
  /\ ~needsRebuild(sqPrev)
  /\ needsRebuild(sq)

\* Array.prototype.sort((a, b) => a.timestamp - b.timestamp), which is
\* stable: an element goes behind those whose timestamp is not larger
RECURSIVE SortByTimestamp(_)
SortByTimestamp(arr) ==
  IF arr = << >> THEN << >>
  ELSE LET last == arr[Len(arr)]
           sorted == SortByTimestamp(SubSeq(arr, 1, Len(arr) - 1))
           IsBefore(a) == a.timestamp <= last.timestamp
       IN SelectSeq(sorted, IsBefore) \o <<last>>
            \o SelectSeq(sorted, LAMBDA a : ~IsBefore(a))

IsStroke(a) == a.type = "stroke"

\* getActionsToReplay
getActionsToReplay(q) == SortByTimestamp(SelectSeq(q.processedActions, IsStroke))

\* the ids of the actions of an array, in the order of the array
IdsOf(arr) == [i \in DOMAIN arr |-> arr[i].id]

(***************************************************************************)
(* C24: the canonical order is the order in which the server appended the  *)
(* actions, which is the order the client was handed them in; timestamps   *)
(* do not order them.  When the canvas is to be rebuilt, the strokes       *)
(* getActionsToReplay() gives are in the order they were processed in,     *)
(* also when their timestamps are not in that order.                       *)
(***************************************************************************)
C24_ReplayInServerOrder ==
  needsRebuild(sq) =>
    IdsOf(getActionsToReplay(sq)) = IdsOf(SelectSeq(sq.processedActions, IsStroke))

\* the action handed to the sequencer last was more than staleAfter ms old
\* when it was processed
StaleHanded == sqIn.kind # "none" /\ sqIn.at - sqIn.timestamp > staleAfter

(***************************************************************************)
(* C31: a stale action is rejected.  An action whose timestamp is more     *)
(* than 30 s before the time of processing is logged in conflictLog as a   *)
(* stale action with strategy reject, is not added to processedActions, is *)
(* not in the batch processQueue returns, and leaves                       *)
(* lastProcessedTimestamp as it was.                                       *)
(***************************************************************************)
C31_StaleRejected ==
  StaleHanded =>
    /\ Len(sq.conflictLog) = Len(sqPrev.conflictLog) + 1
    /\ SubSeq(sq.conflictLog, 1, Len(sqPrev.conflictLog)) = sqPrev.conflictLog
    /\ LET e == sq.conflictLog[Len(sq.conflictLog)]
       IN /\ e.id = sqIn.id
          /\ e.conflict = "stale-action"
          /\ e.resolution.strategy = "reject"
    /\ sq.processedActions = sqPrev.processedActions
    /\ sqBatch = << >>
    /\ sq.lastProcessedTimestamp = sqPrev.lastProcessedTimestamp

\* a stale action was handed in after another action had been processed
C31_Witness ==
  /\ StaleHanded
  /\ sqPrev.processedActions # << >>
  /\ sqPrev.lastProcessedTimestamp > sqIn.timestamp

\* the last pass logged no conflict that requires a rebuild
NoNewRebuildConflict ==
  \A i \in (Len(sqPrev.conflictLog) + 1)..Len(sq.conflictLog) :
     ~sq.conflictLog[i].resolution.requiresRebuild

(***************************************************************************)
(* C34: needsRebuild is consumed by a rebuild.  When needsRebuild() was    *)
(* true after a pass (the client rebuilt the canvas then) and the next     *)
(* pass detects no conflict that requires a rebuild, needsRebuild() is     *)
(* false after that next pass.                                             *)
(***************************************************************************)
C34_RebuildConsumed ==
  (sqIn.kind # "none" /\ needsRebuild(sqPrev) /\ NoNewRebuildConflict)
    => ~needsRebuild(sq)

\* the last pass logged the action handed in as out of order
LoggedOrderMismatch ==
  /\ Len(sq.conflictLog) = Len(sqPrev.conflictLog) + 1
  /\ sq.conflictLog[Len(sq.conflictLog)].id = sqIn.id
  /\ sq.conflictLog[Len(sq.conflictLog)].conflict = "order-mismatch"

(***************************************************************************)
(* C35: lastProcessedTimestamp never decreases over enqueueAction and      *)
(* processQueue calls, so an action that is not stale and is older than an *)
(* action already processed is always detected as an order mismatch.       *)
(***************************************************************************)
C35_TimestampMonotone ==
  /\ sq.lastProcessedTimestamp >= sqPrev.lastProcessedTimestamp
  /\ (/\ sqIn.kind # "none"
      /\ ~StaleHanded
      /\ \E i \in DOMAIN sqPrev.processedActions :
            sqPrev.processedActions[i].timestamp > sqIn.timestamp)
       => LoggedOrderMismatch

(***************************************************************************)
(* C29: conflictLog is a bounded record, its length never exceeds a fixed  *)
(* maximum whatever is enqueued and processed.  A record with a fixed      *)
(* maximum stays shorter than a run of deliveries longer than that         *)
(* maximum: the log never holds an entry for every one of MaxDeliveries    *)
(* deliveries.                                                             *)
(***************************************************************************)
C29_ConflictLogBounded == Len(sq.conflictLog) < MaxDeliveries

(***************************************************************************)
(* HistoryManager: the request state machine.  A request is what one       *)
(* accepted call of requestUndo / requestRedo makes: it is numbered, holds *)
(* a promise and a 5 s timer, and is handed to the socket service.         *)
(***************************************************************************)

\* the objects the manager is handed: a server result message, which holds
\* {userId, action}, and objects that define the history flags
HMData ==
  {[userId |-> u, action |-> null] : u \in Sockets}
    \cup {[canUndo |-> u, canRedo |-> r] : u, r \in BOOLEAN}

\* the socket whose App holds the manager
HMSelf == 1

Waiting(op) == IF op = "undo" THEN WAITING_UNDO ELSE WAITING_REDO

Can(h, op) == IF op = "undo" THEN h.canUndo ELSE h.canRedo

\* resolve(value) of the promise of request id: settling a settled promise
\* does nothing
Settle(id, value) ==
  IF id \in hmuPending THEN hmuResults \cup {[id |-> id, value |-> value]}
  ELSE hmuResults

\* requestUndo / requestRedo: refused (false) when the flag is off or a
\* request is awaited; otherwise the state is set, the timer armed, the
\* promise's resolve and the timer's handle stored, and the request emitted
HMRequest(op) ==
  /\ hmuLast.n < MaxHmCalls
  /\ IF ~Can(hmu, op) \/ hmu.historyState # IDLE
     THEN /\ hmuLast' = [n |-> hmuLast.n + 1, call |-> op, ret |-> "false", id |-> 0,
                          kind |-> "none", from |-> 0]
          /\ UNCHANGED <<hmu, hmuTimers, hmuPending, hmuResults, hmuEmitted>>
     ELSE LET id == Len(hmuEmitted) + 1
          IN /\ hmu' = IF op = "undo"
                        THEN [hmu EXCEPT !.historyState = WAITING_UNDO,
                                         !.undoResolve = id, !.undoTimeout = id]
                        ELSE [hmu EXCEPT !.historyState = WAITING_REDO,
                                         !.redoResolve = id, !.redoTimeout = id]
             /\ hmuTimers' = hmuTimers \cup {[id |-> id, op |-> op]}
             /\ hmuPending' = hmuPending \cup {id}
             /\ hmuEmitted' = Append(hmuEmitted, op)
             /\ hmuLast' = [n |-> hmuLast.n + 1, call |-> op, ret |-> "promise", id |-> id,
                              kind |-> "none", from |-> 0]
             /\ UNCHANGED hmuResults
  /\ UNCHANGED <<dsVars, nextId, sysVars, seqVars, rcVars, srVars, dbVars>>

\* handleUndoResponse / handleRedoResponse: the timer the handle refers to
\* is cleared, the flags are updated, the stored resolve is called with true
\* and forgotten, and the state is reset
HMHandleResponse(op, data) ==
  /\ LET handle == IF op = "undo" THEN hmu.undoTimeout ELSE hmu.redoTimeout
         resolve == IF op = "undo" THEN hmu.undoResolve ELSE hmu.redoResolve
         h1 == updateHistoryState(hmu, data)
     IN /\ hmuTimers' = {t \in hmuTimers : t.id # handle}
        /\ hmuResults' = IF resolve # 0 THEN Settle(resolve, TRUE) ELSE hmuResults
        /\ hmuPending' = hmuPending \ {resolve}
        /\ hmu' = IF op = "undo"
                   THEN [h1 EXCEPT !.undoResolve = 0, !.historyState = IDLE]
                   ELSE [h1 EXCEPT !.redoResolve = 0, !.historyState = IDLE]
        /\ hmuLast' = [hmuLast EXCEPT !.call = "response", !.ret = "none", !.id = resolve,
                                       !.kind = op,
                                       !.from = IF Has(data, "userId") THEN data.userId
                                                ELSE 0]
  /\ UNCHANGED <<hmuEmitted, dsVars, nextId, sysVars, seqVars, rcVars, srVars, dbVars>>

\* a setTimeout callback that asks the server again
HMTimeout_Retries(t) ==
  /\ t \in hmuTimers
  /\ hmuTimers' = hmuTimers \ {t}
  /\ hmu' = [hmu EXCEPT !.historyState = IDLE]
  /\ hmuResults' = Settle(t.id, FALSE)
  /\ hmuPending' = hmuPending \ {t.id}
  /\ hmuLast' = [hmuLast EXCEPT !.call = "timeout", !.ret = "none", !.id = t.id,
                             !.kind = "none", !.from = 0]
  /\ hmuEmitted' = Append(hmuEmitted, t.op)
  /\ UNCHANGED <<dsVars, nextId, sysVars, seqVars, rcVars, srVars, dbVars>>

\* the setTimeout callback of a request, 5 s after it was made: the state is
\* reset, the history-error callback is called (the App clears its pending
\* mark) and the request's promise is resolved with false
HMTimeout(t) ==
  /\ t \in hmuTimers
  /\ hmuTimers' = hmuTimers \ {t}
  /\ hmu' = [hmu EXCEPT !.historyState = IDLE]
  /\ hmuResults' = Settle(t.id, FALSE)
  /\ hmuPending' = hmuPending \ {t.id}
  /\ hmuLast' = [hmuLast EXCEPT !.call = "timeout", !.ret = "none", !.id = t.id,
                             !.kind = "none", !.from = 0]
  /\ UNCHANGED <<hmuEmitted, dsVars, nextId, sysVars, seqVars, rcVars, srVars, dbVars>>

\* updateHistoryState called on its own (the App's RoomJoined handler)
HMUpdate(data) ==
  /\ hmu' = updateHistoryState(hmu, data)
  /\ hmuLast' = [hmuLast EXCEPT !.call = "update", !.ret = "none", !.id = 0,
                             !.kind = "none", !.from = 0]
  /\ UNCHANGED <<hmuTimers, hmuPending, hmuResults, hmuEmitted,
                 dsVars, nextId, sysVars, seqVars, rcVars, srVars, dbVars>>

\* clear(): the flags are turned off and the state reset; the timers and
\* the stored resolve functions are left as they are
HMClear ==
  /\ hmu' = [hmu EXCEPT !.canUndo = FALSE, !.canRedo = FALSE, !.historyState = IDLE]
  /\ hmuLast' = [hmuLast EXCEPT !.call = "clear", !.ret = "none", !.id = 0,
                             !.kind = "none", !.from = 0]
  /\ UNCHANGED <<hmuTimers, hmuPending, hmuResults, hmuEmitted,
                 dsVars, nextId, sysVars, seqVars, rcVars, srVars, dbVars>>

\* cancelPendingOperations(): the timers the two handles refer to are
\* cleared, the stored resolve functions are called with false and
\* forgotten, and the state is reset
HMCancel ==
  /\ hmuTimers' = {t \in hmuTimers : t.id \notin {hmu.undoTimeout, hmu.redoTimeout}}
  /\ hmuResults' = hmuResults \cup
        {[id |-> id, value |-> FALSE] :
           id \in {hmu.undoResolve, hmu.redoResolve} \cap hmuPending}
  /\ hmuPending' = hmuPending \ {hmu.undoResolve, hmu.redoResolve}
  /\ hmu' = [hmu EXCEPT !.undoTimeout = 0, !.redoTimeout = 0,
                        !.undoResolve = 0, !.redoResolve = 0,
                        !.historyState = IDLE]
  /\ hmuLast' = [hmuLast EXCEPT !.call = "cancel", !.ret = "none", !.id = 0,
                             !.kind = "none", !.from = 0]
  /\ UNCHANGED <<hmuEmitted, dsVars, nextId, sysVars, seqVars, rcVars, srVars, dbVars>>

HMInit ==
  /\ UnitIdle
  /\ SeqIdle
  /\ DSIdle
  /\ nextId = 1
  /\ SysInit

HMNext ==
  \/ \E op \in {"undo", "redo"} : HMRequest(op)
  \/ \E op \in {"undo", "redo"}, data \in HMData : HMHandleResponse(op, data)
  \/ \E t \in hmuTimers : HMTimeout(t)
  \/ \E data \in HMData : HMUpdate(data)
  \/ HMClear
  \/ HMCancel

SpecHM == HMInit /\ [][HMNext]_vars

\* the step is a call of requestUndo / requestRedo
RequestCall(op) == hmuLast'.n = hmuLast.n + 1 /\ hmuLast'.call = op

(***************************************************************************)
(* C22: at most one request is outstanding (made and its promise not yet   *)
(* settled).  A requestUndo or requestRedo made while one is outstanding   *)
(* returns false, emits nothing and leaves the manager as it was; so does  *)
(* one made when canUndo (resp. canRedo) is false.                         *)
(***************************************************************************)
C22_OneOutstandingRequest ==
  [][/\ Cardinality(hmuPending') <= 1
     /\ \A op \in {"undo", "redo"} :
          (RequestCall(op) /\ (hmuPending # {} \/ ~Can(hmu, op))) =>
             /\ hmuLast'.ret = "false"
             /\ hmuEmitted' = hmuEmitted
             /\ hmu' = hmu]_vars

\* the timer of request t expires in this step
Expires(t) ==
  /\ t \in hmuTimers
  /\ hmuTimers' = hmuTimers \ {t}
  /\ hmuLast'.call = "timeout"
  /\ hmuLast'.id = t.id

(***************************************************************************)
(* C23: when the timer of a request expires before a response has settled  *)
(* it, the request's promise resolves with false, the state machine is     *)
(* back in IDLE, nothing is emitted to the server (no retry), and canUndo, *)
(* canRedo and the server's histories are as they were.                    *)
(***************************************************************************)
C23_TimeoutFailsLocally ==
  [][\A t \in hmuTimers :
       (Expires(t) /\ t.id \in hmuPending) =>
          /\ [id |-> t.id, value |-> FALSE] \in hmuResults'
          /\ t.id \notin hmuPending'
          /\ hmu'.historyState = IDLE
          /\ hmuEmitted' = hmuEmitted
          /\ hmu'.canUndo = hmu.canUndo
          /\ hmu'.canRedo = hmu.canRedo
          /\ roomStates' = roomStates]_vars

\* an undo request was made, got no response and has timed out
C23_Witness ==
  /\ hmuLast.call = "timeout"
  /\ hmuEmitted = <<"undo">>
  /\ [id |-> 1, value |-> FALSE] \in hmuResults
  /\ hmuPending = {}
  /\ hmu.historyState = IDLE
  /\ hmu.canUndo

\* a request made after request id is outstanding
NewerOutstanding(id) == \E n \in hmuPending : n > id

(***************************************************************************)
(* C32: the timeout of an earlier request never affects a later one.  When *)
(* a timer expires while a request made after the timer's own is           *)
(* outstanding, the step neither resets historyState nor settles a         *)
(* promise.                                                                *)
(***************************************************************************)
C32_OldTimeoutHarmless ==
  [][\A t \in hmuTimers :
       (Expires(t) /\ NewerOutstanding(t.id)) =>
          /\ hmu'.historyState = hmu.historyState
          /\ hmuResults' = hmuResults
          /\ hmuPending' = hmuPending]_vars

\* the step is handleUndoResponse (kind "undo") or handleRedoResponse
ResponseCall(kind) == hmuLast'.call = "response" /\ hmuLast'.kind = kind /\ hmu' # hmu

\* the response of this step answers the request the manager waits for
Matching(kind) == hmu.historyState = Waiting(kind) /\ hmuLast'.from = HMSelf

(***************************************************************************)
(* C33: a pending request is completed only by a response of its own kind  *)
(* to that request.  While the manager waits, a response of the other kind *)
(* or one caused by another member leaves historyState as it was and does  *)
(* not resolve a pending promise with true.                                *)
(***************************************************************************)
C33_OnlyMatchingResponseCompletes ==
  [][\A kind \in {"undo", "redo"} :
       (ResponseCall(kind) /\ hmu.historyState # IDLE /\ ~Matching(kind)) =>
          /\ hmu'.historyState = hmu.historyState
          /\ \A id \in hmuPending : [id |-> id, value |-> TRUE] \notin hmuResults']_vars

(***************************************************************************)
(* ReconnectionManager: startReconnection is an async function, so an      *)
(* invocation runs in pieces: from the call to the first await, from a     *)
(* timer's firing to the call of reconnectFn, and from the settling of     *)
(* reconnectFn to the next await or the return.                            *)
(***************************************************************************)

\* a callback of the manager is called when it is not null
Signal(m, v, event) ==
  [v EXCEPT !.called = IF event \in m.callbacks THEN @ \cup {event} ELSE @]

\* the head of the while loop of startReconnection, run by invocation i up
\* to its await or its return: the manager and the invocation afterwards,
\* and whether a timer was set
LoopHead(m, v, i) ==
  IF m.reconnectAttempts < maxAttempts
  THEN [rc |-> [m EXCEPT !.reconnectAttempts = @ + 1, !.reconnectTimer = i],
        inv |-> [Signal(m, v, "onReconnectAttempt") EXCEPT !.pc = "waiting"],
        timer |-> TRUE]
  ELSE [rc |-> [m EXCEPT !.isAttemptingReconnect = FALSE],
        inv |-> [Signal(m, v, "onMaxAttemptsReached") EXCEPT
                   !.pc = "returned", !.ret = "false"],
        timer |-> FALSE]

\* startReconnection(reconnectFn) is called: nothing when an invocation is
\* in progress, else the loop is entered
RCStart(i) ==
  /\ rcInv[i].pc = "none"
  /\ \A j \in RcInvocations : j < i => rcInv[j].pc # "none"
  /\ IF rc.isAttemptingReconnect
     THEN /\ rcInv' = [rcInv EXCEPT ![i] = [@ EXCEPT !.pc = "returned",
                                                      !.ret = "undefined"]]
          /\ UNCHANGED <<rc, rcTimers>>
     ELSE LET l == LoopHead([rc EXCEPT !.isAttemptingReconnect = TRUE], rcInv[i], i)
          IN /\ rc' = l.rc
             /\ rcInv' = [rcInv EXCEPT ![i] = l.inv]
             /\ rcTimers' = IF l.timer THEN rcTimers \cup {i} ELSE rcTimers
  /\ UNCHANGED <<rcCalls, hmuVars, srVars, dbVars, dsVars, nextId, sysVars, seqVars>>

\* the timer of invocation i fires: the wait ends and reconnectFn is called
RCTimerFires(i) ==
  /\ i \in rcTimers
  /\ rcTimers' = rcTimers \ {i}
  /\ rcInv' = [rcInv EXCEPT ![i] = [@ EXCEPT !.pc = "connecting", !.made = @ + 1]]
  /\ UNCHANGED <<rc, rcCalls, hmuVars, srVars, dbVars, dsVars, nextId, sysVars, seqVars>>

\* the promise of reconnectFn settles: fulfilled with true, fulfilled with
\* false, or rejected
RCSettles(i, outcome) ==
  /\ rcInv[i].pc = "connecting"
  /\ LET v == [rcInv[i] EXCEPT !.outcome = outcome]
     IN IF outcome = "true"
        THEN /\ rc' = [rc EXCEPT !.isAttemptingReconnect = FALSE,
                                 !.reconnectAttempts = 0]
             /\ rcInv' = [rcInv EXCEPT ![i] =
                            [Signal(rc, v, "onReconnectSuccess") EXCEPT
                               !.pc = "returned", !.ret = "true"]]
             /\ UNCHANGED rcTimers
        ELSE LET l == LoopHead(rc, v, i)
             IN /\ rc' = l.rc
                /\ rcInv' = [rcInv EXCEPT ![i] = l.inv]
                /\ rcTimers' = IF l.timer THEN rcTimers \cup {i} ELSE rcTimers
  /\ UNCHANGED <<rcCalls, hmuVars, srVars, dbVars, dsVars, nextId, sysVars, seqVars>>

\* cancelReconnection as a function of the manager
cancelReconnection(m) ==
  [m EXCEPT !.reconnectTimer = 0, !.isAttemptingReconnect = FALSE]

\* cancelReconnection(): the timer the handle refers to is cleared, so the
\* promise that waits for it is never resolved
RCCancel ==
  /\ rcCalls < MaxRcCalls
  /\ rcCalls' = rcCalls + 1
  /\ rcTimers' = rcTimers \ {rc.reconnectTimer}
  /\ rc' = cancelReconnection(rc)
  /\ UNCHANGED <<rcInv, hmuVars, srVars, dbVars, dsVars, nextId, sysVars, seqVars>>

\* reset()
RCReset ==
  /\ rcCalls < MaxRcCalls
  /\ rcCalls' = rcCalls + 1
  /\ rcTimers' = rcTimers \ {rc.reconnectTimer}
  /\ rc' = [cancelReconnection(rc) EXCEPT !.reconnectAttempts = 0]
  /\ UNCHANGED <<rcInv, hmuVars, srVars, dbVars, dsVars, nextId, sysVars, seqVars>>

\* on(event, callback), eventKey being the key the event's name gives: the
\* callback is stored when this.callbacks[eventKey] is truthy
RCOn(eventKey) ==
  /\ rcCalls < MaxRcCalls
  /\ rcCalls' = rcCalls + 1
  /\ rc' = [rc EXCEPT !.callbacks = IF eventKey \in @ THEN @ \cup {eventKey} ELSE @]
  /\ UNCHANGED <<rcInv, rcTimers, hmuVars, srVars, dbVars, dsVars, nextId, sysVars, seqVars>>

RCInit ==
  /\ UnitIdle
  /\ SeqIdle
  /\ DSIdle
  /\ nextId = 1
  /\ SysInit

RCNext ==
  \/ \E i \in RcInvocations : RCStart(i)
  \/ \E i \in RcInvocations : RCTimerFires(i)
  \/ \E i \in RcInvocations : \E outcome \in {"true", "false", "throws"} :
        RCSettles(i, outcome)
  \/ RCCancel
  \/ RCReset
  \/ \E eventKey \in RcEvents : RCOn(eventKey)

SpecRC == RCInit /\ [][RCNext]_vars

\* invocation i returns in this step
Returns(i) == rcInv[i].pc # "returned" /\ rcInv'[i].pc = "returned"

(***************************************************************************)
(* C30: reconnection is bounded.  An invocation of startReconnection that  *)
(* enters the loop calls reconnectFn at most maxAttempts times; it returns *)
(* true when a call of reconnectFn gives true, and reconnectAttempts is 0  *)
(* then; otherwise it returns false, after onMaxAttemptsReached was        *)
(* signalled; and isAttemptingReconnect is false when it returns.          *)
(***************************************************************************)
C30_ReconnectionBounded ==
  [][\A i \in RcInvocations :
       /\ rcInv'[i].made <= maxAttempts
       /\ (rcInv[i].pc = "connecting" /\ rcInv'[i].pc # "connecting"
             /\ rcInv'[i].outcome = "true")
            => rcInv'[i].ret = "true"
       /\ (Returns(i) /\ rcInv'[i].ret # "undefined") =>
            /\ ~rc'.isAttemptingReconnect
            /\ rcInv'[i].ret = "true" => rc'.reconnectAttempts = 0
            /\ rcInv'[i].ret # "true" =>
                 /\ rcInv'[i].ret = "false"
                 /\ "onMaxAttemptsReached" \in rcInv'[i].called]_vars

(***************************************************************************)
(* StateRecoveryManager: startRecovery is an async function; an invocation *)
(* runs from the call to the await of recoveryFn, and from the settling of *)
(* recoveryFn to the return.                                               *)
(***************************************************************************)

\* the keys snapshots are saved under
SnapshotKeys == {1, 2}

\* startRecovery(recoveryFn) is called: false when isRecoveringState is set;
\* otherwise the flag is set and recoveryFn is called
SRStart(i) ==
  /\ srInv[i].pc = "none"
  /\ \A j \in SrInvocations : j < i => srInv[j].pc # "none"
  /\ IF sr.isRecoveringState
     THEN /\ srInv' = [srInv EXCEPT ![i] = [@ EXCEPT !.pc = "returned", !.ret = "false"]]
          /\ UNCHANGED sr
     ELSE /\ sr' = [sr EXCEPT !.isRecoveringState = TRUE]
          /\ srInv' = [srInv EXCEPT ![i] = [@ EXCEPT !.pc = "recovering", !.ran = TRUE]]
  /\ UNCHANGED <<hmuVars, rcVars, dbVars, dsVars, nextId, sysVars, seqVars>>

\* the promise of recoveryFn settles: fulfilled with a truthy value (the
\* invocation returns true from inside the try block), fulfilled with a
\* falsy one, or rejected (the flag is cleared and false returned)
SRSettles(i, outcome) ==
  /\ srInv[i].pc = "recovering"
  /\ IF outcome = "true"
     THEN /\ srInv' = [srInv EXCEPT ![i] = [@ EXCEPT !.pc = "returned", !.ret = "true",
                                                      !.outcome = outcome]]
          /\ UNCHANGED sr
     ELSE /\ sr' = [sr EXCEPT !.isRecoveringState = FALSE]
          /\ srInv' = [srInv EXCEPT ![i] = [@ EXCEPT !.pc = "returned", !.ret = "false",
                                                      !.outcome = outcome]]
  /\ UNCHANGED <<hmuVars, rcVars, dbVars, dsVars, nextId, sysVars, seqVars>>

\* saveSnapshot(key, state)
SRSaveSnapshot(key) ==
  /\ sr' = [sr EXCEPT !.stateSnapshots = @ \cup {key}]
  /\ UNCHANGED <<srInv, hmuVars, rcVars, dbVars, dsVars, nextId, sysVars, seqVars>>

\* clearSnapshot(key)
SRClearSnapshot(key) ==
  /\ sr' = [sr EXCEPT !.stateSnapshots = @ \ {key}]
  /\ UNCHANGED <<srInv, hmuVars, rcVars, dbVars, dsVars, nextId, sysVars, seqVars>>

SRInit ==
  /\ UnitIdle
  /\ SeqIdle
  /\ DSIdle
  /\ nextId = 1
  /\ SysInit

SRNext ==
  \/ \E i \in SrInvocations : SRStart(i)
  \/ \E i \in SrInvocations : \E outcome \in {"true", "false", "throws"} :
        SRSettles(i, outcome)
  \/ \E key \in SnapshotKeys : SRSaveSnapshot(key)
  \/ \E key \in SnapshotKeys : SRClearSnapshot(key)

SpecSR == SRInit /\ [][SRNext]_vars

\* startRecovery is called in this step, as invocation i
RecoveryCalled(i) == srInv[i].pc = "none" /\ srInv'[i].pc # "none"

\* a recovery is running: its recoveryFn was called and has not settled
RecoveryRunning == \E j \in SrInvocations : srInv[j].pc = "recovering"

(***************************************************************************)
(* C39: startRecovery is safe to re-enter and can be used again.  A call   *)
(* made while a recovery is running returns false and does not call its    *)
(* recovery function; when a recovery finishes, whether its function gave  *)
(* true, gave false or threw, isRecoveringState is false; and a call made  *)
(* when no recovery is running calls its recovery function.                *)
(***************************************************************************)
C39_RecoveryReusable ==
  [][\A i \in SrInvocations :
       /\ (RecoveryCalled(i) /\ RecoveryRunning) =>
             /\ srInv'[i].ret = "false"
             /\ ~srInv'[i].ran
       /\ (srInv[i].pc = "recovering" /\ srInv'[i].pc = "returned") =>
             ~sr'.isRecoveringState
       /\ (RecoveryCalled(i) /\ ~RecoveryRunning) => srInv'[i].ran]_vars

(***************************************************************************)
(* The drawing debouncer: send(stroke), the firing of the timer it sets,   *)
(* flush() and cancel().                                                   *)
(***************************************************************************)

\* what the timer's function and flush() do with the held stroke: the
\* callback is called with it when there is one
Deliver == IF db.lastStroke # 0 THEN Append(dbDelivered, db.lastStroke) ELSE dbDelivered

\* send(stroke): the stroke takes the place of lastStroke, the timer that
\* was set is cleared and a new one is set
DBSend ==
  /\ dbSent < MaxSends
  /\ dbSent' = dbSent + 1
  /\ db' = [lastStroke |-> dbSent + 1, armed |-> TRUE]
  /\ UNCHANGED <<dbDelivered, dbCancelled, dbCalls,
                 hmuVars, rcVars, srVars, dsVars, nextId, sysVars, seqVars>>

\* the timer fires, delay ms after the last send()
DBTimer ==
  /\ db.armed
  /\ dbDelivered' = Deliver
  /\ db' = NewDebouncer
  /\ UNCHANGED <<dbSent, dbCancelled, dbCalls,
                 hmuVars, rcVars, srVars, dsVars, nextId, sysVars, seqVars>>

\* flush()
DBFlush ==
  /\ dbCalls < MaxDbCalls
  /\ dbCalls' = dbCalls + 1
  /\ dbDelivered' = Deliver
  /\ db' = NewDebouncer
  /\ UNCHANGED <<dbSent, dbCancelled,
                 hmuVars, rcVars, srVars, dsVars, nextId, sysVars, seqVars>>

\* cancel()
DBCancel ==
  /\ dbCalls < MaxDbCalls
  /\ dbCalls' = dbCalls + 1
  /\ dbCancelled' = IF db.lastStroke # 0 THEN dbCancelled \cup {db.lastStroke}
                    ELSE dbCancelled
  /\ db' = NewDebouncer
  /\ UNCHANGED <<dbSent, dbDelivered,
                 hmuVars, rcVars, srVars, dsVars, nextId, sysVars, seqVars>>

DBInit ==
  /\ UnitIdle
  /\ SeqIdle
  /\ DSIdle
  /\ nextId = 1
  /\ SysInit

DBNext ==
  \/ DBSend
  \/ DBTimer
  \/ DBFlush
  \/ DBCancel

SpecDB == DBInit /\ [][DBNext]_vars

\* how many times the callback was called with stroke s
TimesDelivered(s) == Cardinality({i \in DOMAIN dbDelivered : dbDelivered[i] = s})

(***************************************************************************)
(* C40: the debouncer loses no stroke.  Every stroke passed to send() is   *)
(* held with the timer set, or was handed to the callback, or was held     *)
(* when cancel() was called; none is handed to the callback twice, and a   *)
(* stroke sent shortly after another does not take its place.              *)
(***************************************************************************)
C40_NoStrokeLost ==
  \A s \in 1..dbSent :
     /\ TimesDelivered(s) <= 1
     /\ \/ TimesDelivered(s) = 1
        \/ s \in dbCancelled
        \/ db.lastStroke = s /\ db.armed

====
